---- MODULE Spec2Model ----
(***************************************************************************)
(* State-machine model of the AutoGenerator path editor:                   *)
(*   - the path model (start, waypoints, markers, selection) with its      *)
(*     bounded undo history and the canvas / control handlers that mutate  *)
(*     it (core.js part of src/unnamed/part_000),                          *)
(*   - the code decoder (code-reverser.js part of src/unnamed/part_000),   *)
(*   - the code generators (src/unnamed/part_001:306-367 and               *)
(*     src/Generator/scripts/robot-oriented.js),                           *)
(*   - the simulator (src/unnamed/part_001).                               *)
(*                                                                         *)
(* Numeric conventions of the model (the code uses IEEE doubles):          *)
(*   lengths   : integers, 1 unit = 1e-4 m                                 *)
(*   headings  : integers, 1 unit = 0.01 degree; the field h of a pose is  *)
(*               the code's radian heading expressed in these units, so    *)
(*               radToDeg / degToRad are the change of unit and only the   *)
(*               sign flips of the code remain visible                     *)
(*   indices   : the code's 0-based indices; waypoints[i] of the code is   *)
(*               waypoints[i + 1] of the model's sequence                  *)
(***************************************************************************)
EXTENDS Integers, Sequences, FiniteSets, TLC

VARIABLES
    waypoints,              \* part_000:16
    markers,                \* part_000:17
    nextMarkerId,           \* part_000:18
    start,                  \* part_000:19
    history,                \* part_000:15
    selectedSegmentIdx,     \* part_000:26  (NullIdx models null)
    draggingIdx,            \* part_000:20
    draggingHIdx,           \* part_000:21
    draggingArcControlIdx,  \* part_000:22
    setStartMode,           \* part_000:23
    addActionMode,          \* part_000:24
    currentMode,            \* part_000:14
    simSpeed,               \* part_000:27  (tenths)
    isSimulating,           \* part_000:25
    arcSamples,             \* part_000:28
    codeOutput,             \* the text displayCodeOutput() last showed, part_000:164-178
    chains,                 \* the closures created by simulate(), part_001:3-303
    report,                 \* what the last handler told the user (alert)
    lastOp,                 \* observation: the handler that ran last
    pushed,                 \* observation: that handler called saveState()
    dragOrigin,             \* observation: path geometry when the drag began
    steps,                  \* observation: number of handlers run so far
    advancer,               \* observation: the run whose callback just moved its robot (0: none)
    evaluated               \* observation: the last application of a helper, [fn, arg, val]

pathVars == <<waypoints, markers, nextMarkerId, start, history, selectedSegmentIdx>>
uiVars   == <<draggingIdx, draggingHIdx, draggingArcControlIdx, setStartMode,
              addActionMode, currentMode>>
simVars  == <<simSpeed, isSimulating, chains>>
textVars == <<arcSamples, codeOutput>>
obsVars  == <<report, lastOp, pushed, dragOrigin, steps, advancer, evaluated>>
vars     == <<pathVars, uiVars, simVars, textVars, obsVars>>

----------------------------------------------------------------------------
(* Bounds of the model *)

\* handlers run in one behaviour of the editor
MaxSteps == 4
\* handlers run after a history that is already near its capacity
MaxHistSteps == 3
\* waypoints a path may hold while editing
MaxWaypoints == 3
\* simulate() calls that start a run in one behaviour
MaxRuns == 2
\* angles handed to wrapDeg: -MaxAngle..MaxAngle degrees, in half degrees
MaxAngle == 720
\* change events on the two configuration inputs in one behaviour
MaxConfigSteps == 3
\* handlers run on a path that is already built
MaxBuiltSteps == 2
\* handlers run on the decoded arcs before and between their simulations
MaxArcSteps == 2

----------------------------------------------------------------------------
(* Program constants *)

HistoryCap == 20
NullIdx == -1
NoDrag == -1
StartDrag == -2

\* canvas.width assumed 600 px, so ppm = 600 / 3.6576 px per metre and n pixels
\* are n * 36576 / 600 length units
CanvasWidth == 600
FieldUnits == 36576
PxUnits(n) == (n * FieldUnits) \div CanvasWidth

\* hit radius of the mousedown tests (px), marker reuse radius (px), handle arm (px)
HitPx == 10
ReusePx == 5
HandlePx == 18

\* simulate(): driveSpeed * 16 ms in length units, turnSpeedDeg * 16 ms in 0.01 deg,
\* both at speed multiplier 1.0; the 0.5 degree snap window; the 0.0001 heading test
\* (radToDeg(-h) in degrees) rounds to "h is not zero" at the model's resolution
TravelPerFrame == 128
TurnPerFrame == 192
SnapWindow == 50
\* d > 0.5 and Math.ceil(d / 0.2) of the field path refinement (part_001:66-67)
RefineOver == 5000
RefineStep == 2000

----------------------------------------------------------------------------
(* Math helpers *)

Abs(n) == IF n < 0 THEN -n ELSE n
Min(a, b) == IF a <= b THEN a ELSE b
Sign(n) == IF n > 0 THEN 1 ELSE IF n < 0 THEN -1 ELSE 0

\* bisection for the largest r in lo..hi with r * r <= n
RECURSIVE SqrtSearch(_, _, _)
SqrtSearch(n, lo, hi) ==
    IF lo >= hi THEN lo
    ELSE CHOOSE r \in {IF mid * mid <= n THEN SqrtSearch(n, mid, hi)
                                         ELSE SqrtSearch(n, lo, mid - 1) :
                       mid \in {(lo + hi + 1) \div 2}} : TRUE

\* floor of the square root (Math.sqrt / Math.hypot at the model's resolution)
ISqrt(n) == SqrtSearch(n, 0, 46340)
Hypot(dx, dy) == ISqrt(dx * dx + dy * dy)
Dist(a, b) == Hypot(b.x - a.x, b.y - a.y)

\* function wrapDeg(d) { while (d > 180) d -= 360; while (d < -180) d += 360; return d; }
RECURSIVE wrapDeg(_)
wrapDeg(d) ==
    IF d > 18000 THEN wrapDeg(d - 36000)
    ELSE IF d < -18000 THEN wrapDeg(d + 36000)
    ELSE d

\* atan(y / x) for 0 <= y <= x, x > 0, in 0.01 degree (exact at 0 and 45 degrees,
\* within 0.25 degree elsewhere)
AtanRatio(y, x) ==
    LET r == (y * 1000) \div x
    IN (r * (4500 + (1566 * (1000 - r)) \div 1000)) \div 1000

\* Math.atan2(dy, dx) in 0.01 degree, in (-180, 180]; atan2(0, 0) = 0
Atan2(dy, dx) ==
    LET ax == Abs(dx)
        ay == Abs(dy)
        a  == IF ax = 0 /\ ay = 0 THEN 0
              ELSE IF ax >= ay THEN AtanRatio(ay, ax)
              ELSE 9000 - AtanRatio(ax, ay)
        q  == IF dx >= 0 THEN a ELSE 18000 - a
    IN IF dy < 0 THEN -q ELSE q

\* 1000 * sin of an angle in [0, 180] degrees given in 0.01 degree (Bhaskara)
SinHalfTurn(c) ==
    LET x == c \div 10
        p == x * (1800 - x)
    IN 2 * ((2000 * p) \div (4050000 - p))

\* 1000 * Math.sin / Math.cos of an angle given in 0.01 degree
SinMilli(c) ==
    LET w == wrapDeg(c)
    IN IF w >= 0 THEN SinHalfTurn(w) ELSE -SinHalfTurn(-w)
CosMilli(c) == SinMilli(c + 9000)

----------------------------------------------------------------------------
(* Path model: values *)

Pt(x, y) == [x |-> x, y |-> y]
Pose(x, y, h) == [x |-> x, y |-> y, h |-> h]

\* the arcControlPoint property of a waypoint: absent (never set or deleted),
\* null, or a point
CpAbsent == [tag |-> "absent", x |-> 0, y |-> 0]
CpNull == [tag |-> "null", x |-> 0, y |-> 0]
CpAt(p) == [tag |-> "pt", x |-> p.x, y |-> p.y]
\* !wp.arcControlPoint
CpFalsy(cp) == cp.tag # "pt"

\* { x, y, h, segmentType, arcSpeed: 0.8 }
GeoWaypoint(x, y, h, type, speed) ==
    [x |-> x, y |-> y, h |-> h, isAction |-> FALSE, actionId |-> 0,
     segmentType |-> type, arcSpeed |-> speed, cp |-> CpAbsent]

\* { x, y, h: 0, isAction: true, actionId }
ActionWaypoint(x, y, id) ==
    [x |-> x, y |-> y, h |-> 0, isAction |-> TRUE, actionId |-> id,
     segmentType |-> "undefined", arcSpeed |-> "undefined", cp |-> CpAbsent]

Marker(id, x, y, name, args) == [id |-> id, x |-> x, y |-> y, name |-> name, args |-> args]

Origin == Pose(0, 0, 0)

\* waypoints[i] of the code is truthy
HasWaypoint(wps, i) == i >= 0 /\ i < Len(wps)

\* waypoints.splice(at, 0, wp), at 0-based
InsertAt(wps, at, wp) == SubSeq(wps, 1, at) \o <<wp>> \o SubSeq(wps, at + 1, Len(wps))
\* waypoints.splice(at, 1), at 0-based
RemoveAt(wps, at) == SubSeq(wps, 1, at) \o SubSeq(wps, at + 2, Len(wps))
Front(q) == SubSeq(q, 1, Len(q) - 1)
Last(q) == q[Len(q)]

\* computeDefaultArcControl(prevWp, p): the midpoint moved by 0.3 * dist along the
\* perpendicular (cos(a + 90), sin(a + 90)) = (-dy, dx) / dist of the segment
computeDefaultArcControl(prevWp, p) ==
    LET dx == p.x - prevWp.x
        dy == p.y - prevWp.y
        midX == (prevWp.x + p.x) \div 2
        midY == (prevWp.y + p.y) \div 2
    IN IF Hypot(dx, dy) < 1
       THEN Pt(midX, midY)
       ELSE Pt(midX + (-3 * dy) \div 10, midY + (3 * dx) \div 10)

\* draw(): the only state it writes is the cached default control point of an arc
\* waypoint drawn in robot mode (part_000:299-313); the waypoint before it is read
\* for its position only
draw(wps, st, mode) ==
    [i \in 1..Len(wps) |->
        LET p == wps[i]
            prevWp == IF i = 1 THEN st ELSE wps[i - 1]
            straight == mode = "field" \/ p.segmentType = "drive" \/ p.segmentType = "strafe"
        IN IF ~straight /\ p.segmentType = "arc" /\ CpFalsy(p.cp)
           THEN [p EXCEPT !.cp = CpAt(computeDefaultArcControl(prevWp, p))]
           ELSE p]

----------------------------------------------------------------------------
(* State management: saveState, undo (part_000:112-131) *)

SnapshotWithoutMarkers(wps, mks, st, sel) ==
    [waypoints |-> wps, markers |-> <<>>, start |-> st, selectedSegmentIdx |-> sel]

\* the object saveState() pushes; JSON.parse(JSON.stringify(v)) is a deep copy of
\* the finite numbers, strings, booleans and nulls the model's waypoints hold
Snapshot(wps, mks, st, sel) ==
    [waypoints |-> wps, markers |-> mks, start |-> st, selectedSegmentIdx |-> sel]

Current == Snapshot(waypoints, markers, start, selectedSegmentIdx)

saveStateAfterClearing ==
    LET grown == Append(history, Snapshot(<<>>, <<>>, start, selectedSegmentIdx))
    IN IF Len(grown) > HistoryCap THEN Tail(grown) ELSE grown

saveStateEvictNewest ==
    IF Len(history) >= HistoryCap THEN Append(Front(history), Current)
    ELSE Append(history, Current)

\* history.push({...}); if (history.length > 20) history.shift();
saveState ==
    LET grown == Append(history, Current)
    IN IF Len(grown) > HistoryCap THEN Tail(grown) ELSE grown

Observe(op, pushes, msg) ==
    /\ lastOp' = op
    /\ pushed' = (pushes = 1)
    /\ report' = msg
    /\ steps' = steps + 1
    /\ advancer' = 0
    /\ UNCHANGED <<arcSamples, evaluated>>

undoUnguarded ==
    IF Len(history) = 0
    THEN \* history.pop() is undefined and state.waypoints throws
         /\ Observe("undoEmpty", 0, "TypeError")
         /\ UNCHANGED <<pathVars, uiVars, simVars, dragOrigin>>
    ELSE LET state == Last(history)
         IN /\ Observe("undo", 0, "none")
            /\ history' = Front(history)
            /\ waypoints' = draw(state.waypoints, state.start, currentMode)
            /\ markers' = state.markers
            /\ start' = state.start
            /\ selectedSegmentIdx' = state.selectedSegmentIdx
            /\ UNCHANGED <<nextMarkerId, uiVars, simVars, dragOrigin>>

undoKeepsSelection ==
    /\ IF Len(history) = 0
       THEN /\ Observe("undoEmpty", 0, "none")
            /\ UNCHANGED <<pathVars, uiVars, simVars, dragOrigin>>
       ELSE LET state == Last(history)
            IN /\ Observe("undo", 0, "none")
               /\ history' = Front(history)
               /\ waypoints' = draw(state.waypoints, state.start, currentMode)
               /\ markers' = state.markers
               /\ start' = state.start
               /\ UNCHANGED <<selectedSegmentIdx, nextMarkerId, uiVars, simVars, dragOrigin>>

\* function undo()
undo ==
    /\ IF Len(history) = 0
       THEN /\ Observe("undoEmpty", 0, "none")
            /\ UNCHANGED <<pathVars, uiVars, simVars, dragOrigin>>
       ELSE LET state == Last(history)
            IN /\ Observe("undo", 0, "none")
               /\ history' = Front(history)
               /\ waypoints' = draw(state.waypoints, state.start, currentMode)
               /\ markers' = state.markers
               /\ start' = state.start
               /\ selectedSegmentIdx' = state.selectedSegmentIdx
               /\ UNCHANGED <<nextMarkerId, uiVars, simVars, dragOrigin>>

\* function deleteSelectedPoint(); the Delete key calls it when the selection is
\* not null (part_000:600-602)
deleteSelectedPoint ==
    IF selectedSegmentIdx # NullIdx /\ HasWaypoint(waypoints, selectedSegmentIdx)
    THEN /\ history' = saveState
         /\ waypoints' = draw(RemoveAt(waypoints, selectedSegmentIdx), start, currentMode)
         /\ selectedSegmentIdx' = NullIdx
         /\ Observe("delete", 1, "none")
         /\ UNCHANGED <<markers, nextMarkerId, start, uiVars, simVars, dragOrigin>>
    ELSE /\ Observe("idle", 0, "none")
         /\ UNCHANGED <<pathVars, uiVars, simVars, dragOrigin>>

clearPathResetsCounter(confirmed) ==
    /\ Observe("clear", IF confirmed THEN 1 ELSE 0, "none")
    /\ IF confirmed
       THEN /\ history' = saveState
            /\ waypoints' = <<>>
            /\ markers' = <<>>
            /\ start' = Origin
            /\ selectedSegmentIdx' = NullIdx
            /\ nextMarkerId' = 1
            /\ UNCHANGED <<uiVars, simVars, dragOrigin>>
       ELSE UNCHANGED <<pathVars, uiVars, simVars, dragOrigin>>

\* function clearPath(), the user confirming or not
clearPath(confirmed) ==
    /\ Observe("clear", IF confirmed THEN 1 ELSE 0, "none")
    /\ IF confirmed
       THEN /\ history' = saveState
            /\ waypoints' = <<>>
            /\ markers' = <<>>
            /\ start' = Origin
            /\ selectedSegmentIdx' = NullIdx
            /\ UNCHANGED <<nextMarkerId, uiVars, simVars, dragOrigin>>
       ELSE UNCHANGED <<pathVars, uiVars, simVars, dragOrigin>>

----------------------------------------------------------------------------
(* Inputs of the handlers *)

\* pointer positions (already through toMeters): the start, two free spots, the
\* heading handles of the start and of a waypoint at PA with h = 0, the default
\* control point of an arc from the origin to PA, and a spot for a marker
P0 == Pt(0, 0)
PA == Pt(5000, 0)
PB == Pt(5000, 5000)
PM == Pt(0, 5000)
PStartHandle == Pt(PxUnits(HandlePx), 0)
PAHandle == Pt(5000 + PxUnits(HandlePx), 0)
PACtrl == Pt(2500, 1500)

Clicks == {P0, PA, PM, PStartHandle, PAHandle, PACtrl}
Moves == {PB, PM}

\* prompt() answers: "" stands for Cancel or a blank name
PromptNames == {"", "grab"}
PromptArgs == {""}
SegmentTypes == {"drive", "strafe", "arc"}
Modes == {"robot", "field"}

NoOrigin == [active |-> FALSE, waypoints |-> <<>>, start |-> Origin]
OriginNow == [active |-> TRUE, waypoints |-> waypoints, start |-> start]

----------------------------------------------------------------------------
(* Canvas handlers (part_000:417-568) *)

\* Math.hypot(px - pos.x, py - pos.y) < 10, the pointer and the target in pixels
Hit(m, q) ==
    (m.x - q.x) * (m.x - q.x) + (m.y - q.y) * (m.y - q.y) < PxUnits(HitPx) * PxUnits(HitPx)

\* handlePosPixels(p) / startHandlePosPixels(): 18 px from the point along h, in
\* pixel space (y grows downwards)
handlePos(p) ==
    Pt(p.x + (PxUnits(HandlePx) * CosMilli(p.h)) \div 1000,
       p.y - (PxUnits(HandlePx) * SinMilli(p.h)) \div 1000)

\* Math.atan2(py - pos.y, px - pos.x) for a pointer at m and a point at p
PixelAngle(m, p) == Atan2(-(m.y - p.y), m.x - p.x)

\* the loop of part_000:427-445: the first waypoint, in index order, whose
\* position, arc control point or heading handle is under the pointer
RECURSIVE WaypointUnder(_, _, _)
WaypointUnder(wps, m, i) ==
    IF i > Len(wps) THEN [kind |-> "none", idx |-> NoDrag]
    ELSE IF Hit(m, wps[i]) THEN [kind |-> "point", idx |-> i - 1]
    ELSE IF wps[i].segmentType = "arc" /\ ~CpFalsy(wps[i].cp) /\ Hit(m, wps[i].cp)
         THEN [kind |-> "control", idx |-> i - 1]
    ELSE IF Hit(m, handlePos(wps[i])) THEN [kind |-> "handle", idx |-> i - 1]
    ELSE WaypointUnder(wps, m, i + 1)

\* the loop of part_000:459-471: index (1-based) of the first marker under the
\* pointer, 0 when there is none
RECURSIVE MarkerUnder(_, _, _)
MarkerUnder(mks, m, i) ==
    IF i > Len(mks) THEN 0
    ELSE IF Hit(m, mks[i]) THEN i
    ELSE MarkerUnder(mks, m, i + 1)

\* the loop of part_000:480-483: index (1-based) of the first marker of that name
\* closer than 5 px, 0 when there is none
RECURSIVE MarkerNear(_, _, _, _)
MarkerNear(mks, m, name, i) ==
    IF i > Len(mks) THEN 0
    ELSE IF Dist(mks[i], m) < PxUnits(ReusePx) /\ mks[i].name = name THEN i
    ELSE MarkerNear(mks, m, name, i + 1)

\* let insertAt = waypoints.length; for (j = length - 1; j >= 0; j--)
\*     if (!waypoints[j].isAction) { insertAt = j + 1; break; }
RECURSIVE InsertScan(_, _)
InsertScan(wps, j) ==
    IF j < 1 THEN Len(wps)
    ELSE IF ~wps[j].isAction THEN j
    ELSE InsertScan(wps, j - 1)

insertAtFront(wps) == 0
insertAtEnd(wps) == Len(wps)
insertAt(wps) == InsertScan(wps, Len(wps))

CanGrow == Len(waypoints) < MaxWaypoints

mousedown(m) ==
    LET under == WaypointUnder(waypoints, m, 1)
        mk == MarkerUnder(markers, m, 1)
    IN
    IF Hit(m, start) THEN
        /\ draggingIdx' = StartDrag
        /\ dragOrigin' = OriginNow
        /\ Observe("dragStart", 0, "none")
        /\ UNCHANGED <<pathVars, draggingHIdx, draggingArcControlIdx, setStartMode,
                       addActionMode, currentMode, simVars>>
    ELSE IF under.kind = "point" THEN
        /\ selectedSegmentIdx' = under.idx
        /\ draggingIdx' = under.idx
        /\ dragOrigin' = OriginNow
        /\ Observe("dragStart", 0, "none")
        /\ UNCHANGED <<waypoints, markers, nextMarkerId, start, history, draggingHIdx,
                       draggingArcControlIdx, setStartMode, addActionMode, currentMode,
                       simVars>>
    ELSE IF under.kind = "control" THEN
        /\ draggingArcControlIdx' = under.idx
        /\ dragOrigin' = OriginNow
        /\ Observe("dragStart", 0, "none")
        /\ UNCHANGED <<pathVars, draggingIdx, draggingHIdx, setStartMode, addActionMode,
                       currentMode, simVars>>
    ELSE IF under.kind = "handle" THEN
        /\ draggingHIdx' = under.idx
        /\ dragOrigin' = OriginNow
        /\ Observe("dragStart", 0, "none")
        /\ UNCHANGED <<pathVars, draggingIdx, draggingArcControlIdx, setStartMode,
                       addActionMode, currentMode, simVars>>
    ELSE IF Hit(m, handlePos(start)) THEN
        /\ draggingHIdx' = StartDrag
        /\ dragOrigin' = OriginNow
        /\ Observe("dragStart", 0, "none")
        /\ UNCHANGED <<pathVars, draggingIdx, draggingArcControlIdx, setStartMode,
                       addActionMode, currentMode, simVars>>
    ELSE IF setStartMode /\ currentMode # "robot" THEN
        /\ history' = saveState
        /\ start' = Pose(m.x, m.y, 0)
        /\ setStartMode' = FALSE
        /\ waypoints' = draw(waypoints, start', currentMode)
        /\ Observe("setStart", 1, "none")
        /\ UNCHANGED <<markers, nextMarkerId, selectedSegmentIdx, draggingIdx, draggingHIdx,
                       draggingArcControlIdx, addActionMode, currentMode, simVars, dragOrigin>>
    ELSE IF mk > 0 THEN
        /\ CanGrow
        /\ history' = saveState
        /\ waypoints' = draw(InsertAt(waypoints, insertAt(waypoints),
                                      ActionWaypoint(markers[mk].x, markers[mk].y, markers[mk].id)),
                             start, currentMode)
        /\ Observe("clickMarker", 1, "none")
        /\ UNCHANGED <<markers, nextMarkerId, start, selectedSegmentIdx, uiVars, simVars,
                       dragOrigin>>
    ELSE IF addActionMode THEN
        \E name \in PromptNames, args \in PromptArgs :
        IF name = "" THEN
            \* prompt() cancelled or left blank
            /\ addActionMode' = FALSE
            /\ Observe("promptCancel", 0, "none")
            /\ UNCHANGED <<pathVars, draggingIdx, draggingHIdx, draggingArcControlIdx,
                           setStartMode, currentMode, simVars, dragOrigin>>
        ELSE
            LET found == MarkerNear(markers, m, name, 1)
                id == nextMarkerId
            IN /\ CanGrow
               /\ history' = saveState
               /\ IF found > 0
                  THEN /\ waypoints' = draw(InsertAt(waypoints, insertAt(waypoints),
                                            ActionWaypoint(markers[found].x, markers[found].y,
                                                           markers[found].id)),
                                            start, currentMode)
                       /\ UNCHANGED <<markers, nextMarkerId>>
                  ELSE /\ nextMarkerId' = nextMarkerId + 1
                       /\ markers' = Append(markers, Marker(id, m.x, m.y, name, args))
                       /\ waypoints' = draw(InsertAt(waypoints, insertAt(waypoints),
                                            ActionWaypoint(m.x, m.y, id)),
                                            start, currentMode)
               /\ addActionMode' = FALSE
               /\ Observe("addAction", 1, "none")
               /\ UNCHANGED <<start, selectedSegmentIdx, draggingIdx, draggingHIdx,
                              draggingArcControlIdx, setStartMode, currentMode, simVars,
                              dragOrigin>>
    ELSE
        /\ CanGrow
        /\ history' = saveState
        /\ waypoints' = draw(Append(waypoints, GeoWaypoint(m.x, m.y, 0, "drive", "0.80")),
                             start, currentMode)
        /\ selectedSegmentIdx' = Len(waypoints)
        /\ Observe("addWaypoint", 1, "none")
        /\ UNCHANGED <<markers, nextMarkerId, start, uiVars, simVars, dragOrigin>>

\* the mousemove handler; its first half only sets the cursor style
mousemove(m) ==
    IF draggingIdx = NoDrag /\ draggingHIdx = NoDrag /\ draggingArcControlIdx = NoDrag THEN
        /\ Observe("idle", 0, "none")
        /\ UNCHANGED <<pathVars, uiVars, simVars, dragOrigin>>
    ELSE IF draggingIdx >= 0 THEN
        IF ~HasWaypoint(waypoints, draggingIdx) THEN
            \* waypoints[draggingIdx] is undefined: the assignment throws
            /\ Observe("dragMove", 0, "TypeError")
            /\ UNCHANGED <<pathVars, uiVars, simVars, dragOrigin>>
        ELSE
            LET i == draggingIdx + 1
                moved == [waypoints[i] EXCEPT
                            !.x = m.x, !.y = m.y,
                            !.cp = IF waypoints[i].segmentType = "arc" THEN CpNull ELSE @]
            IN /\ waypoints' = draw([waypoints EXCEPT ![i] = moved], start, currentMode)
               /\ Observe("dragMove", 0, "none")
               /\ UNCHANGED <<markers, nextMarkerId, start, history, selectedSegmentIdx,
                              uiVars, simVars, dragOrigin>>
    ELSE IF draggingIdx = StartDrag THEN
        /\ start' = [start EXCEPT !.x = m.x, !.y = m.y]
        /\ waypoints' = draw(waypoints, start', currentMode)
        /\ Observe("dragMove", 0, "none")
        /\ UNCHANGED <<markers, nextMarkerId, history, selectedSegmentIdx, uiVars, simVars,
                       dragOrigin>>
    ELSE IF draggingHIdx >= 0 THEN
        IF ~HasWaypoint(waypoints, draggingHIdx) THEN
            /\ Observe("dragMove", 0, "TypeError")
            /\ UNCHANGED <<pathVars, uiVars, simVars, dragOrigin>>
        ELSE
            LET i == draggingHIdx + 1
            IN /\ waypoints' = draw([waypoints EXCEPT ![i].h = PixelAngle(m, waypoints[i])],
                                    start, currentMode)
               /\ Observe("dragMove", 0, "none")
               /\ UNCHANGED <<markers, nextMarkerId, start, history, selectedSegmentIdx,
                              uiVars, simVars, dragOrigin>>
    ELSE IF draggingHIdx = StartDrag THEN
        /\ start' = [start EXCEPT !.h = PixelAngle(m, start)]
        /\ waypoints' = draw(waypoints, start', currentMode)
        /\ Observe("dragMove", 0, "none")
        /\ UNCHANGED <<markers, nextMarkerId, history, selectedSegmentIdx, uiVars, simVars,
                       dragOrigin>>
    ELSE IF draggingArcControlIdx >= 0 THEN
        IF ~HasWaypoint(waypoints, draggingArcControlIdx) THEN
            /\ Observe("dragMove", 0, "TypeError")
            /\ UNCHANGED <<pathVars, uiVars, simVars, dragOrigin>>
        ELSE
            LET i == draggingArcControlIdx + 1
                wp == waypoints[i]
                turned == [wp EXCEPT !.cp = CpAt(m), !.h = Atan2(wp.y - m.y, wp.x - m.x)]
            IN /\ waypoints' = draw([waypoints EXCEPT ![i] = turned], start, currentMode)
               /\ Observe("dragMove", 0, "none")
               /\ UNCHANGED <<markers, nextMarkerId, start, history, selectedSegmentIdx,
                              uiVars, simVars, dragOrigin>>
    ELSE
        \* draggingArcControlIdx is -2 or lower: never assigned by the code
        /\ Observe("idle", 0, "none")
        /\ UNCHANGED <<pathVars, uiVars, simVars, dragOrigin>>

\* window mouseup
mouseup ==
    /\ draggingIdx' = NoDrag
    /\ draggingHIdx' = NoDrag
    /\ draggingArcControlIdx' = NoDrag
    /\ dragOrigin' = NoOrigin
    /\ Observe("mouseup", 0, "none")
    /\ UNCHANGED <<pathVars, setStartMode, addActionMode, currentMode, simVars>>

----------------------------------------------------------------------------
(* Controls (part_000:133-158, 233-241, 570-603) *)

\* function setMode(mode): the assignment and the draw()
setMode(mode) ==
    /\ currentMode' = mode
    /\ waypoints' = draw(waypoints, start, mode)
    /\ Observe("setMode", 0, "none")
    /\ UNCHANGED <<markers, nextMarkerId, start, history, selectedSegmentIdx, draggingIdx,
                   draggingHIdx, draggingArcControlIdx, setStartMode, addActionMode,
                   simVars, dragOrigin>>

\* function toggleAddAction()
toggleAddAction ==
    /\ addActionMode' = ~addActionMode
    /\ waypoints' = draw(waypoints, start, currentMode)
    /\ Observe("toggleAddAction", 0, "none")
    /\ UNCHANGED <<markers, nextMarkerId, start, history, selectedSegmentIdx, draggingIdx,
                   draggingHIdx, draggingArcControlIdx, setStartMode, currentMode,
                   simVars, dragOrigin>>

\* function toggleSetStart()
toggleSetStart ==
    /\ setStartMode' = IF currentMode # "robot" THEN ~setStartMode ELSE setStartMode
    /\ Observe("toggleSetStart", 0, "none")
    /\ UNCHANGED <<pathVars, draggingIdx, draggingHIdx, draggingArcControlIdx,
                   addActionMode, currentMode, simVars, dragOrigin>>

\* keydown with e.key === 'Escape'
keyEscape ==
    /\ addActionMode' = FALSE
    /\ waypoints' = IF addActionMode THEN draw(waypoints, start, currentMode) ELSE waypoints
    /\ Observe("escape", 0, "none")
    /\ UNCHANGED <<markers, nextMarkerId, start, history, selectedSegmentIdx, draggingIdx,
                   draggingHIdx, draggingArcControlIdx, setStartMode, currentMode,
                   simVars, dragOrigin>>

retypeNoSnapshot(value) ==
    IF selectedSegmentIdx # NullIdx /\ HasWaypoint(waypoints, selectedSegmentIdx) THEN
        LET i == selectedSegmentIdx + 1
            mode == IF currentMode = "field" /\ value = "arc" THEN "robot" ELSE currentMode
            wp == [waypoints[i] EXCEPT
                     !.segmentType = value,
                     !.cp = IF value = "arc" THEN CpNull ELSE CpAbsent]
        IN /\ currentMode' = mode
           /\ waypoints' = draw([waypoints EXCEPT ![i] = wp], start, mode)
           /\ Observe("retype", 0, "none")
           /\ UNCHANGED <<markers, nextMarkerId, start, history, selectedSegmentIdx,
                          draggingIdx, draggingHIdx, draggingArcControlIdx, setStartMode,
                          addActionMode, simVars, dragOrigin>>
    ELSE
        /\ Observe("idle", 0, "none")
        /\ UNCHANGED <<pathVars, uiVars, simVars, dragOrigin>>

\* segmentTypeSelect change handler, the select holding value
retype(value) ==
    IF selectedSegmentIdx # NullIdx /\ HasWaypoint(waypoints, selectedSegmentIdx) THEN
        LET i == selectedSegmentIdx + 1
            \* setMode('robot') when an arc is chosen in field mode
            mode == IF currentMode = "field" /\ value = "arc" THEN "robot" ELSE currentMode
            wp == [waypoints[i] EXCEPT
                     !.segmentType = value,
                     !.cp = IF value = "arc" THEN CpNull ELSE CpAbsent]
        IN /\ history' = saveState
           /\ currentMode' = mode
           /\ waypoints' = draw([waypoints EXCEPT ![i] = wp], start, mode)
           /\ Observe("retype", 1, "none")
           /\ UNCHANGED <<markers, nextMarkerId, start, selectedSegmentIdx, draggingIdx,
                          draggingHIdx, draggingArcControlIdx, setStartMode, addActionMode,
                          simVars, dragOrigin>>
    ELSE
        /\ Observe("idle", 0, "none")
        /\ UNCHANGED <<pathVars, uiVars, simVars, dragOrigin>>

----------------------------------------------------------------------------
(* Program text: one record per line; n1..n3 are the numbers the decoder's       *)
(* regular expressions capture, s1 and s2 a call's name and arguments            *)

Line(tok, n1, n2, n3, s1, s2) ==
    [tok |-> tok, n1 |-> n1, n2 |-> n2, n3 |-> n3, s1 |-> s1, s2 |-> s2]

\* a line with none of the decoder's keywords
TextLine == Line("text", 0, 0, 0, "", "")
\* a line that starts with //
CommentLine == Line("comment", 0, 0, 0, "", "")
\* List<Pose2d> waypoints = new ArrayList<>();
ListLine == Line("list", 0, 0, 0, "", "")
\* waypoints.add(new Pose2d(x, y, Rotation2d.fromDegrees(deg)));  x, y in 0.1 cm
PoseLine(x, y, deg) == Line("pose", x, y, deg, "", "")
\* turnPID(deg);
TurnLine(deg) == Line("turnPID", deg, 0, 0, "", "")
\* drivePID(dist, deg);  strafePID(dist, deg);  dist in 0.01 m
DriveLine(dist, deg) == Line("drivePID", dist, deg, 0, "", "")
StrafeLine(dist, deg) == Line("strafePID", dist, deg, 0, "", "")
\* arc(dist, speed, t -> t      speed in 0.01
ArcLine(dist, speed) == Line("arc", dist, speed, 0, "", "")
\* .at(t, deg)      t in 0.01
AtLine(t, deg) == Line("at", t, deg, 0, "", "")
\* );
CloseLine == Line("close", 0, 0, 0, "", "")
\* arc(dist, speed, t -> t.at(0.0, 0).at(1.0, deg));   an arc command on one line
ArcInlineLine(dist, speed, deg) == Line("arcInline", dist, speed, deg, "", "")
\* name(args);
CallLine(name, args) == Line("call", 0, 0, 0, name, args)

\* line.includes(');')
Closes(line) ==
    line.tok \in {"turnPID", "drivePID", "strafePID", "call", "close", "pose", "list",
                  "markerList", "pathMarker", "arcInline"}

\* code.includes(word) for the words decodeAndVisualize looks for
Includes(code, word) ==
    \E i \in 1..Len(code) :
        \/ word = "Pose2d" /\ code[i].tok \in {"pose", "list"}
        \/ word = "ArrayList" /\ code[i].tok \in {"list", "markerList"}
        \/ word = "turnPID" /\ code[i].tok = "turnPID"
        \/ word = "drivePID" /\ code[i].tok = "drivePID"
        \/ word = "strafePID" /\ code[i].tok = "strafePID"
        \/ word = "arc(" /\ code[i].tok \in {"arc", "arcInline"}

\* (n).toFixed(2) of a speed held in hundredths
SpeedText(n) ==
    CASE n = 80 -> "0.80"
      [] n = 50 -> "0.50"
      [] n = 100 -> "1.00"
      [] OTHER -> "0.00"

----------------------------------------------------------------------------
(* Code decoder (part_000:628-817) *)

\* parseFieldOrientedCode: every pose literal in text order; the first is the
\* start, the others drive waypoints (cm / 100 to metres, h = degToRad(-angle))
RECURSIVE FieldPoses(_, _)
FieldPoses(code, i) ==
    IF i > Len(code) THEN <<>>
    ELSE IF code[i].tok = "pose"
         THEN <<Pose(code[i].n1 * 10, code[i].n2 * 10, -(code[i].n3 * 100))>>
              \o FieldPoses(code, i + 1)
    ELSE FieldPoses(code, i + 1)

RECURSIVE PosesToWaypoints(_, _)
PosesToWaypoints(poses, i) ==
    IF i > Len(poses) THEN <<>>
    ELSE <<GeoWaypoint(poses[i].x, poses[i].y, poses[i].h, "drive", "0.80")>>
         \o PosesToWaypoints(poses, i + 1)

\* [start, waypoints] after parseFieldOrientedCode(code) run on start st and no waypoints
parseFieldOrientedCode(code, st) ==
    LET poses == FieldPoses(code, 1)
    IN [start |-> IF Len(poses) > 0 THEN poses[1] ELSE st,
        waypoints |-> PosesToWaypoints(poses, 2)]

RECURSIVE ArcEndOvershoot(_, _)
ArcEndOvershoot(code, j) ==
    IF j > Len(code) THEN j
    ELSE IF Closes(code[j]) THEN j + 1
    ELSE ArcEndOvershoot(code, j + 1)

\* the arc scan of part_000:775-785: index of the line that ends the command,
\* Len(code) + 1 when no line after i includes ");"
RECURSIVE ArcEnd(_, _)
ArcEnd(code, j) ==
    IF j > Len(code) THEN j
    ELSE IF Closes(code[j]) THEN j
    ELSE ArcEnd(code, j + 1)

\* the .at(t, deg) matches of lines i..j, in order
RECURSIVE AtMatches(_, _, _)
AtMatches(code, i, j) ==
    IF i > j \/ i > Len(code) THEN <<>>
    ELSE IF code[i].tok = "at" THEN <<code[i]>> \o AtMatches(code, i + 1, j)
    ELSE IF code[i].tok = "arcInline"
         THEN <<AtLine(0, 0), AtLine(100, code[i].n3)>> \o AtMatches(code, i + 1, j)
    ELSE AtMatches(code, i + 1, j)

\* advance of the cursor: distance (0.01 m) * Math.cos / Math.sin of deg degrees
StepX(dist, deg) == (dist * 100 * CosMilli(deg * 100)) \div 1000
StepYDown(dist, deg) == -((dist * 100 * SinMilli(deg * 100)) \div 1000)
StepY(dist, deg) == (dist * 100 * SinMilli(deg * 100)) \div 1000

\* the line loop of parseRobotOrientedCode from line i with cursor (x, y)
RECURSIVE RobotLines(_, _, _, _)
RobotLines(code, i, x, y) ==
    IF i > Len(code) THEN <<>>
    ELSE LET line == code[i]
         IN IF line.tok = "comment" THEN RobotLines(code, i + 1, x, y)
            ELSE IF line.tok = "turnPID" THEN RobotLines(code, i + 1, x, y)
            ELSE IF line.tok \in {"drivePID", "strafePID"} THEN
                LET nx == x + StepX(line.n1, line.n2)
                    ny == y + StepY(line.n1, line.n2)
                    type == IF line.tok = "drivePID" THEN "drive" ELSE "strafe"
                IN <<GeoWaypoint(nx, ny, -(line.n2 * 100), type, "0.80")>>
                   \o RobotLines(code, i + 1, nx, ny)
            ELSE IF line.tok \in {"arc", "arcInline"} THEN
                LET j == ArcEnd(code, i + 1)
                    ats == AtMatches(code, i, j)
                    startHeading == IF Len(ats) >= 2 THEN ats[1].n2 ELSE 0
                    endHeading == IF Len(ats) >= 2 THEN ats[Len(ats)].n2 ELSE 0
                    nx == x + StepX(line.n1, startHeading)
                    ny == y + StepY(line.n1, startHeading)
                IN <<GeoWaypoint(nx, ny, -(endHeading * 100), "arc", SpeedText(line.n2))>>
                   \o RobotLines(code, j + 1, nx, ny)
            ELSE RobotLines(code, i + 1, x, y)

\* [start, waypoints] after parseRobotOrientedCode(code): the start is kept
parseRobotOrientedCode(code, st) ==
    [start |-> st, waypoints |-> RobotLines(code, 1, st.x, st.y)]

IsOrigin(p) == p.x = 0 /\ p.y = 0 /\ p.h = 0

restoreStartNever(parsedStart, prevStart) == parsedStart

\* if (start is the origin && prevStart is not) start = prevStart;  (part_000:653-656)
restoreStart(parsedStart, prevStart) ==
    IF IsOrigin(parsedStart) /\ ~IsOrigin(prevStart) THEN prevStart ELSE parsedStart

\* function decodeAndVisualize(), the decoder input holding code
decodeAndVisualize(code) ==
    IF Len(code) = 0 THEN
        \* if (!code.trim()) return;
        /\ Observe("idle", 0, "none")
        /\ UNCHANGED <<pathVars, uiVars, simVars, dragOrigin>>
    ELSE
        LET prevStart == start
            isFieldOriented == Includes(code, "Pose2d") \/ Includes(code, "ArrayList")
            isRobotOriented == Includes(code, "drivePID") \/ Includes(code, "strafePID")
                               \/ Includes(code, "turnPID") \/ Includes(code, "arc(")
        IN
        /\ history' = saveState
        /\ markers' = <<>>
        /\ IF ~isFieldOriented /\ ~isRobotOriented THEN
               \* alert('Unable to detect code format. ...'); return;
               /\ waypoints' = <<>>
               /\ Observe("decode", 1, "UnrecognizedFormat")
               /\ UNCHANGED <<start, selectedSegmentIdx>>
           ELSE
               LET parsed == IF isFieldOriented THEN parseFieldOrientedCode(code, start)
                             ELSE parseRobotOrientedCode(code, start)
                   st == restoreStart(parsed.start, prevStart)
               IN /\ start' = st
                  /\ IF Len(parsed.waypoints) > 0 \/ ~IsOrigin(st)
                     THEN /\ selectedSegmentIdx' = 0
                          /\ waypoints' = draw(parsed.waypoints, st, currentMode)
                          /\ Observe("decode", 1, "none")
                     ELSE \* alert('No waypoints found in the code.');
                          /\ waypoints' = parsed.waypoints
                          /\ Observe("decode", 1, "NoWaypointsDecoded")
                          /\ UNCHANGED selectedSegmentIdx
        /\ UNCHANGED <<nextMarkerId, uiVars, simVars, dragOrigin>>

\* decoder inputs: blank, no keyword, a pose list with a start and one waypoint,
\* a pose list with a start only, a list with no pose, a turn and a drive, an arc
TextBlank == <<>>
TextUnknown == <<TextLine>>
TextFieldTwo == <<ListLine, PoseLine(500, 0, -90), PoseLine(500, 500, 0)>>
TextFieldStartOnly == <<ListLine, PoseLine(500, 0, -90)>>
TextFieldNone == <<ListLine>>
TextRobotDrive == <<CommentLine, TurnLine(0), DriveLine(50, 90)>>
TextRobotArc == <<TurnLine(0), ArcLine(50, 80), AtLine(0, 0), AtLine(100, 90), CloseLine>>

DecodeTexts == {TextBlank, TextUnknown, TextFieldTwo, TextFieldStartOnly, TextFieldNone,
                TextRobotDrive, TextRobotArc}

----------------------------------------------------------------------------
(* Helpers shared by the code generator and the simulator *)

\* an element of points = [start].concat(waypoints): the fields the closure reads
StartPoint(st) == GeoWaypoint(st.x, st.y, st.h, "undefined", "undefined")

\* Math.min(1, driveProgress / info.len || 1) >= 1: a quotient that is 0 or NaN
\* counts as 1
AtEnd(dp, len) == dp = 0 \/ len = 0 \/ dp >= len

\* a + (b - a) * frac
Lerp(a, b, dp, len) == IF AtEnd(dp, len) THEN b ELSE a + ((b - a) * dp) \div len

\* bezierPoint(frac, p0, p1, p2), by repeated interpolation
bezierPoint(dp, len, p0, p1, p2) ==
    LET q0x == Lerp(p0.x, p1.x, dp, len)
        q0y == Lerp(p0.y, p1.y, dp, len)
        q1x == Lerp(p1.x, p2.x, dp, len)
        q1y == Lerp(p1.y, p2.y, dp, len)
    IN Pt(Lerp(q0x, q1x, dp, len), Lerp(q0y, q1y, dp, len))

----------------------------------------------------------------------------
(* Code generators: generateFieldOrientedCode (part_001:306-367) and            *)
(* generateRobotOrientedCode (Generator/scripts/robot-oriented.js)              *)

\* (cm).toFixed(1) of a length, in 0.1 cm: the nearest tenth, halves away from zero
FixedTenths(x) == Sign(x) * ((Abs(x) + 5) \div 10)
\* (m).toFixed(2) of a length, in 0.01 m
FixedHundredths(x) == Sign(x) * ((Abs(x) + 50) \div 100)
\* Math.round of an angle given in 0.01 degree, in degrees: halves towards +infinity
RoundDeg(c) == (c + 50) \div 100

\* the Pose2d line of a point: (p.x * 100).toFixed(1), (p.y * 100).toFixed(1),
\* Math.round(radToDeg(-p.h))
PoseOf(p) == PoseLine(FixedTenths(p.x), FixedTenths(p.y), RoundDeg(-p.h))

\* waypoints.filter(wp => !wp.isAction), mapped to the pose lines
RECURSIVE PoseLines(_, _)
PoseLines(wps, i) ==
    IF i > Len(wps) THEN <<>>
    ELSE IF wps[i].isAction THEN PoseLines(wps, i + 1)
    ELSE <<PoseOf(wps[i])>> \o PoseLines(wps, i + 1)

\* markers.find(m => m.id === id): index (1-based) of the first marker of that id, 0
\* when there is none
RECURSIVE FindMarker(_, _, _)
FindMarker(mks, id, i) ==
    IF i > Len(mks) THEN 0
    ELSE IF mks[i].id = id THEN i
    ELSE FindMarker(mks, id, i + 1)

\* the value of 0 / 0 and of parseFloat / parseInt on text that holds no number
NaN == -1000000000

\* ((currentWaypointIndex / totalWaypoints) * 100).toFixed(1), in 0.1 percent
Percent(index, total) ==
    IF total = 0 THEN NaN ELSE (index * 10000 + 5 * total) \div (10 * total)

\* markers.add(new PathMarker(percent, () -> { ... "percent% - name" ... }));
PathMarkerLine(percent, name) == Line("pathMarker", percent, 0, 0, name, "")
\* List<PathMarker> markers = new ArrayList<>();   return new ArrayList<>();
MarkerListLine == Line("markerList", 0, 0, 0, "", "")

\* the second forEach of generateFieldOrientedCode from waypoint i, 'seen' non-action
\* waypoints before it
RECURSIVE PathMarkerLines(_, _, _, _, _)
PathMarkerLines(wps, mks, i, seen, total) ==
    IF i > Len(wps) THEN <<>>
    ELSE IF ~wps[i].isAction THEN PathMarkerLines(wps, mks, i + 1, seen + 1, total)
    ELSE LET k == FindMarker(mks, wps[i].actionId, 1)
         IN (IF k > 0 THEN <<PathMarkerLine(Percent(seen, total), mks[k].name)>> ELSE <<>>)
            \o PathMarkerLines(wps, mks, i + 1, seen, total)

\* the text generateFieldOrientedCode() displays
generateFieldOrientedCode(st, wps, mks) ==
    LET poses == PoseLines(wps, 1)
        hasActions == \E i \in 1..Len(wps) : wps[i].isAction
    IN <<ListLine, CommentLine, PoseOf(st)>> \o poses \o <<MarkerListLine>>
       \o (IF hasActions THEN PathMarkerLines(wps, mks, 1, 0, Len(poses)) ELSE <<>>)

\* cur.arcSpeed || 0.8, then .toFixed(2), in 0.01
ArcSpeedOf(speed) ==
    CASE speed = "0.50" -> 50
      [] speed = "1.00" -> 100
      [] OTHER -> 80

\* approxLen of robot-oriented.js:44-53: the 10-chord length of the curve
RECURSIVE ChordSum(_, _, _, _, _)
ChordSum(p0, p1, p2, lastPt, s) ==
    IF s > 10 THEN 0
    ELSE LET pt == bezierPoint(s, 10, p0, p1, p2)
         IN Dist(lastPt, pt) + ChordSum(p0, p1, p2, pt, s + 1)

\* the .at(t, h) lines of robot-oriented.js:64-71 from sample s
RECURSIVE TangentLines(_, _, _, _, _)
TangentLines(p0, p1, p2, samples, s) ==
    IF s >= samples THEN <<>>
    ELSE LET dx == (samples - s) * (p1.x - p0.x) + s * (p2.x - p1.x)
             dy == (samples - s) * (p1.y - p0.y) + s * (p2.y - p1.y)
         IN <<AtLine((2 * s * 100 + samples) \div (2 * samples), RoundDeg(Atan2(dy, dx)))>>
            \o TangentLines(p0, p1, p2, samples, s + 1)

\* the lines one iteration of the loop of generateRobotOrientedCode adds for
\* pts[i] = cur after pts[i - 1] = prev
SegmentLines(prev, cur, mks, samples) ==
    LET dx == cur.x - prev.x
        dy == cur.y - prev.y
        dist == Hypot(dx, dy)
        segAngle == Atan2(dy, dx)
        segmentType == IF cur.segmentType = "undefined" THEN "drive" ELSE cur.segmentType
        wh == -cur.h
        onCurve == ~CpFalsy(cur.cp)
        travelDist == IF onCurve THEN ChordSum(prev, cur.cp, cur, prev, 1) ELSE dist
        motion ==
            IF segmentType = "arc"
            THEN <<ArcLine(FixedHundredths(travelDist), ArcSpeedOf(cur.arcSpeed)), AtLine(0, 0)>>
                 \o (IF onCurve /\ samples # NaN
                     THEN TangentLines(prev, cur.cp, cur, samples, 1) ELSE <<>>)
                 \o <<AtLine(100, RoundDeg(wh)), CloseLine>>
            ELSE IF segmentType = "strafe"
            THEN <<StrafeLine(FixedHundredths(dist), RoundDeg(segAngle))>>
            ELSE <<TurnLine(RoundDeg(segAngle)),
                   DriveLine(FixedHundredths(dist), RoundDeg(segAngle))>>
        turn == IF cur.h # 0 /\ segmentType # "arc" /\ Abs(wrapDeg(wh - segAngle)) > 100
                THEN <<TurnLine(RoundDeg(wh))>> ELSE <<>>
        k == IF cur.isAction /\ cur.actionId # 0 THEN FindMarker(mks, cur.actionId, 1) ELSE 0
        action == IF k > 0 THEN <<CommentLine, CallLine(mks[k].name, mks[k].args)>> ELSE <<>>
    IN IF dist < 10
       THEN \* if (dist < 0.001) { ...; continue; }
            IF cur.h # 0 THEN <<TurnLine(RoundDeg(wh))>> ELSE <<>>
       ELSE motion \o turn \o action

RECURSIVE RobotSegments(_, _, _, _)
RobotSegments(pts, mks, samples, i) ==
    IF i > Len(pts) THEN <<>>
    ELSE SegmentLines(pts[i - 1], pts[i], mks, samples)
         \o RobotSegments(pts, mks, samples, i + 1)

\* the text generateRobotOrientedCode() displays
generateRobotOrientedCode(st, wps, mks, samples) ==
    <<CommentLine, CommentLine, TurnLine(0)>>
    \o RobotSegments(<<StartPoint(st)>> \o wps, mks, samples, 2)

\* function generateCode()
generateCode(mode, st, wps, mks, samples) ==
    IF mode = "field" THEN generateFieldOrientedCode(st, wps, mks)
    ELSE generateRobotOrientedCode(st, wps, mks, samples)

----------------------------------------------------------------------------
(* The editor: initial state and next-state relation *)

EditorInit ==
    /\ waypoints = <<>>
    /\ markers = <<>>
    /\ nextMarkerId = 1
    /\ start = Origin
    /\ history = <<>>
    /\ selectedSegmentIdx = NullIdx
    /\ draggingIdx = NoDrag
    /\ draggingHIdx = NoDrag
    /\ draggingArcControlIdx = NoDrag
    /\ setStartMode = FALSE
    /\ addActionMode = FALSE
    /\ currentMode = "robot"
    /\ simSpeed = 10
    /\ isSimulating = FALSE
    /\ chains = <<>>
    /\ arcSamples = 5
    /\ codeOutput = <<>>

\* no helper applied yet
NoCall == [fn |-> "none", arg |-> 0, val |-> 0]

ObsInit ==
    /\ report = "none"
    /\ lastOp = "init"
    /\ pushed = FALSE
    /\ dragOrigin = NoOrigin
    /\ steps = 0
    /\ advancer = 0
    /\ evaluated = NoCall

Init == EditorInit /\ ObsInit

\* the handlers of the editor
Handlers ==
    \/ \E m \in Clicks : mousedown(m)
    \/ \E m \in Moves : mousemove(m)
    \/ mouseup
    \/ undo
    \/ deleteSelectedPoint
    \/ \E c \in BOOLEAN : clearPath(c)
    \/ \E mode \in Modes : setMode(mode)
    \/ toggleAddAction
    \/ toggleSetStart
    \/ keyEscape
    \/ \E value \in SegmentTypes : retype(value)
    \/ \E code \in DecodeTexts : decodeAndVisualize(code)

\* the handlers that end with generateCode() when nothing threw (part_000:130, 157,
\* 217, 455, 468, 503, 514, 545-560, 584, 662)
Regenerating == {"undo", "setMode", "delete", "setStart", "clickMarker", "addAction",
                 "addWaypoint", "dragMove", "retype", "decode"}

\* what the handler that just ran left in the code output: the text generateCode()
\* makes of the new state, nothing after a confirmed clearPath() (part_000:229)
displayCodeOutput ==
    codeOutput' =
        IF lastOp' \in Regenerating /\ report' = "none"
        THEN generateCode(currentMode', start', waypoints', markers', arcSamples')
        ELSE IF lastOp' = "clear" /\ pushed' THEN <<>>
        ELSE codeOutput

Next == Handlers /\ displayCodeOutput

Spec == Init /\ [][steps < MaxSteps /\ Next]_vars

----------------------------------------------------------------------------
(* The editor with a history that is nearly full: the state after k alternating *)
(* "click at PA" and "Delete", k from HistoryCap - 2 to HistoryCap               *)

WpA == GeoWaypoint(PA.x, PA.y, 0, "drive", "0.80")
SnapEmpty == Snapshot(<<>>, <<>>, Origin, NullIdx)
SnapA == Snapshot(<<WpA>>, <<>>, Origin, 0)
Alternating(k) == [i \in 1..k |-> IF i % 2 = 1 THEN SnapEmpty ELSE SnapA]

InitHist ==
    \E k \in (HistoryCap - 2)..HistoryCap :
        /\ history = Alternating(k)
        /\ waypoints = IF k % 2 = 1 THEN <<WpA>> ELSE <<>>
        /\ selectedSegmentIdx = IF k % 2 = 1 THEN 0 ELSE NullIdx
        /\ markers = <<>>
        /\ nextMarkerId = 1
        /\ start = Origin
        /\ draggingIdx = NoDrag
        /\ draggingHIdx = NoDrag
        /\ draggingArcControlIdx = NoDrag
        /\ setStartMode = FALSE
        /\ addActionMode = FALSE
        /\ currentMode = "robot"
        /\ simSpeed = 10
        /\ isSimulating = FALSE
        /\ chains = <<>>
        /\ report = "none"
        /\ lastOp = IF k % 2 = 1 THEN "addWaypoint" ELSE "delete"
        /\ pushed = TRUE
        /\ dragOrigin = NoOrigin
        /\ steps = 0
        /\ advancer = 0
        /\ evaluated = NoCall
        /\ arcSamples = 5
        /\ codeOutput = generateCode(currentMode, start, waypoints, markers, arcSamples)

SpecHist == InitHist /\ [][steps < MaxHistSteps /\ Next]_vars

----------------------------------------------------------------------------
(* Properties of the editor *)

\* C1 (as stated): a decode of non-empty text in neither format reports the
\* unrecognized format and leaves waypoints, markers, start and selection as they were
C1_FailedDecodeKeepsPath ==
    [][(lastOp' = "decode" /\ report' = "UnrecognizedFormat")
         => (waypoints' = waypoints /\ markers' = markers /\ start' = start
             /\ selectedSegmentIdx' = selectedSegmentIdx)]_vars

\* C2: the history never holds more than HistoryCap snapshots, and a push appends
\* the pre-state, dropping the oldest snapshot exactly when the stack is full
C2_HistoryFifo ==
    /\ [](Len(history) <= HistoryCap)
    /\ [][pushed' => history' = IF Len(history) < HistoryCap
                               THEN Append(history, Current)
                               ELSE Append(Tail(history), Current)]_vars

\* C2 witness: a push on a full stack has dropped the oldest snapshot
C2_Evicted == pushed /\ Len(history) = HistoryCap /\ history[1] # SnapEmpty

\* C3 (as stated): an undo on a non-empty history pops the newest snapshot and
\* makes waypoints, markers, start and selection equal to its contents
C3_UndoEqualsSnapshot ==
    [][(lastOp' = "undo" /\ Len(history) > 0)
         => (history' = Front(history) /\ Current' = Last(history))]_vars

\* C3 (amended): an undo on a non-empty history pops the newest snapshot and makes
\* markers, start and selection equal to its contents and waypoints equal to its
\* waypoints as redrawn in the current mode
C3_UndoRestoresRedrawn ==
    [][(lastOp' = "undo" /\ Len(history) > 0)
         => (/\ history' = Front(history)
             /\ waypoints' = draw(Last(history).waypoints, Last(history).start, currentMode)
             /\ markers' = Last(history).markers
             /\ start' = Last(history).start
             /\ selectedSegmentIdx' = Last(history).selectedSegmentIdx)]_vars

\* C3 witness: an undo has brought back a path with a selected waypoint
C3_Undone == lastOp = "undo" /\ Len(waypoints) > 0 /\ selectedSegmentIdx # NullIdx

\* C4: an undo on an empty history changes nothing and reports nothing
C4_UndoEmptyNoOp ==
    [][(lastOp' \in {"undo", "undoEmpty"} /\ Len(history) = 0)
         => (UNCHANGED <<pathVars, uiVars, simVars>> /\ report' = "none")]_vars

\* C4 witness: an undo on an empty history, the start dragged away from the origin
C4_UndoneEmpty == lastOp = "undoEmpty" /\ Len(history) = 0 /\ start # Origin

StructuralOps == {"addWaypoint", "addAction", "clickMarker", "retype", "delete", "setStart"}

\* C5 (as stated): a structural mutation pushes the state as it was just before
\* it, and an undo right after the mutation makes the state equal to that snapshot
C5_UndoEqualsPreState ==
    /\ [][lastOp' \in StructuralOps
            => (pushed' /\ Len(history') > 0 /\ Last(history') = Current)]_vars
    /\ [][(lastOp \in StructuralOps /\ lastOp' = "undo") => Current' = Last(history)]_vars

\* C5 (amended): a structural mutation pushes the state as it was just before it,
\* and an undo right after the mutation restores that snapshot's markers, start and
\* selection, and its waypoints as redrawn in the current mode
C5_SnapshotBeforeMutation ==
    /\ [][lastOp' \in StructuralOps
            => (pushed' /\ Len(history') > 0 /\ Last(history') = Current)]_vars
    /\ [][(lastOp \in StructuralOps /\ lastOp' = "undo")
            => Current' = [Last(history) EXCEPT
                             !.waypoints = draw(@, Last(history).start, currentMode)]]_vars

\* C5 witness: a retype of a waypoint, the snapshot holding the path before it
C5_Retyped ==
    /\ lastOp = "retype"
    /\ pushed
    /\ Len(history) > 0
    /\ Last(history).waypoints # waypoints

\* C6 (as stated): an undo right after a drag has moved something brings back the
\* waypoints and the start as they were when the drag began
C6_UndoRestoresPreDrag ==
    [][(lastOp = "dragMove" /\ report = "none" /\ dragOrigin.active
        /\ lastOp' \in {"undo", "undoEmpty"})
         => (waypoints' = dragOrigin.waypoints /\ start' = dragOrigin.start)]_vars

\* C7 (as stated): the selection is null or the index of an existing waypoint
C7_SelectionInRange ==
    selectedSegmentIdx = NullIdx \/ HasWaypoint(waypoints, selectedSegmentIdx)

----------------------------------------------------------------------------
(* Simulator (part_001:3-303): one record of chains per simulate() call that   *)
(* started a run, holding the variables its step closure captures              *)

\* speed multipliers the slider can hold, in tenths
SimSpeeds == {0, 10, 20}

\* driveSpeed * (dt / 1000) * simSpeed and turnSpeedDeg * (dt / 1000) * simSpeed
Travel(speed) == (TravelPerFrame * speed) \div 10
MaxTurn(speed) == (TurnPerFrame * speed) \div 10

\* segInfo(i), i 0-based
segInfo(points, i) ==
    LET a == points[i + 1]
        b == points[i + 2]
    IN [len |-> Hypot(b.x - a.x, b.y - a.y),
        ang |-> Atan2(b.y - a.y, b.x - a.x),
        a |-> a, b |-> b,
        segmentType |-> IF b.segmentType = "undefined" THEN "drive" ELSE b.segmentType]

\* waypoints after getArcControlPoint(segIdx) and the point it returns (CpNull for null)
getArcControlPoint(wps, st, segIdx) ==
    IF segIdx < 1 \/ segIdx >= Len(wps) THEN [cp |-> CpNull, waypoints |-> wps]
    ELSE LET wp == wps[segIdx + 1]
         IN IF wp.segmentType = "arc"
            THEN IF CpFalsy(wp.cp)
                 THEN LET made == CpAt(computeDefaultArcControl(wps[segIdx], wp))
                      IN [cp |-> made, waypoints |-> [wps EXCEPT ![segIdx + 1].cp = made]]
                 ELSE [cp |-> wp.cp, waypoints |-> wps]
            ELSE [cp |-> CpNull, waypoints |-> wps]

\* Math.round(heading / 90) * 90
Round90(h) == ((2 * h + 9000) \div 18000) * 9000

TurnByUnclamped(heading, diff, maxStep) == heading + Sign(diff) * maxStep

\* heading + Math.sign(diff) * Math.min(maxStep, Math.abs(diff))
TurnBy(heading, diff, maxStep) == heading + Sign(diff) * Min(maxStep, Abs(diff))

ArriveAdvancing(ch) ==
    IF ch.points[ch.seg + 2].h # 0
    THEN [ch EXCEPT !.seg = @ + 1, !.phase = "wpTurn"]
    ELSE [ch EXCEPT !.seg = @ + 1, !.phase = "turn"]

\* the end of a primary phase: wpTurn when the waypoint has a heading, else the
\* next segment
Arrive(ch) ==
    IF ch.points[ch.seg + 2].h # 0
    THEN [ch EXCEPT !.phase = "wpTurn"]
    ELSE [ch EXCEPT !.seg = @ + 1, !.phase = "turn"]

\* the phase branches of step(16) for a run ch whose segment is info: the run and
\* the waypoints after them
stepPhase(ch, info, wps, st, speed) ==
    LET same == [run |-> ch, waypoints |-> wps]
    IN
    IF ch.phase = "turn" THEN
        LET target == wrapDeg(info.ang)
            diff == wrapDeg(target - ch.heading)
        IN IF Abs(diff) <= SnapWindow
           THEN [same EXCEPT !.run =
                   [ch EXCEPT !.heading = IF info.segmentType = "strafe"
                                          THEN wrapDeg(Round90(target)) ELSE target,
                              !.phase = IF info.segmentType \in {"strafe", "arc"}
                                        THEN info.segmentType ELSE "drive",
                              !.driveProgress = 0,
                              !.primaries = @ + 1]]
           ELSE [same EXCEPT !.run.heading = TurnBy(ch.heading, diff, MaxTurn(speed))]
    ELSE IF ch.phase \in {"drive", "strafe"} THEN
        LET dp == ch.driveProgress + Travel(speed)
            moved == [ch EXCEPT !.driveProgress = dp,
                                !.pos = Pt(Lerp(info.a.x, info.b.x, dp, info.len),
                                           Lerp(info.a.y, info.b.y, dp, info.len)),
                                !.heading = IF ch.phase = "drive" THEN info.ang ELSE @]
        IN [same EXCEPT !.run = IF AtEnd(dp, info.len) THEN Arrive(moved) ELSE moved]
    ELSE IF ch.phase = "arc" THEN
        LET prevWp == IF ch.seg = 0 THEN st ELSE wps[ch.seg]
            curWp == wps[ch.seg + 1]
            dp == ch.driveProgress + Travel(speed)
            got == getArcControlPoint(wps, st, ch.seg)
            controlPt == IF CpFalsy(got.cp) THEN computeDefaultArcControl(info.a, info.b)
                         ELSE Pt(got.cp.x, got.cp.y)
            startH == -prevWp.h
            endH == -curWp.h
            moved == [ch EXCEPT !.driveProgress = dp,
                                !.pos = bezierPoint(dp, info.len, info.a, controlPt, info.b),
                                !.heading = wrapDeg(Lerp(startH, endH, dp, info.len))]
        IN [run |-> IF AtEnd(dp, info.len) THEN Arrive(moved) ELSE moved,
            waypoints |-> got.waypoints]
    ELSE \* wpTurn
        LET target == wrapDeg(-ch.points[ch.seg + 2].h)
            diff == wrapDeg(target - ch.heading)
        IN IF Abs(diff) <= SnapWindow
           THEN [same EXCEPT !.run = [ch EXCEPT !.heading = target, !.seg = @ + 1,
                                                !.phase = "turn"]]
           ELSE [same EXCEPT !.run.heading = TurnBy(ch.heading, diff, MaxTurn(speed))]

\* one pass of computeFieldPath's loop: the first point, the 1/4 and 3/4 points
\* of every pair, the last point
RECURSIVE Quarters(_, _)
Quarters(pts, i) ==
    IF i >= Len(pts) THEN <<>>
    ELSE LET p0 == pts[i]
             p1 == pts[i + 1]
         IN <<Pt((3 * p0.x + p1.x) \div 4, (3 * p0.y + p1.y) \div 4),
              Pt((p0.x + 3 * p1.x) \div 4, (p0.y + 3 * p1.y) \div 4)>>
            \o Quarters(pts, i + 1)

Chaikin(pts) == <<pts[1]>> \o Quarters(pts, 1) \o <<pts[Len(pts)]>>

\* pts.filter((p, i, a) => i === 0 || Math.hypot(p.x - a[i-1].x, p.y - a[i-1].y) > 1e-6)
RECURSIVE Distinct(_, _)
Distinct(pts, i) ==
    IF i > Len(pts) THEN <<>>
    ELSE (IF i = 1 \/ pts[i].x # pts[i - 1].x \/ pts[i].y # pts[i - 1].y
          THEN <<pts[i]>> ELSE <<>>)
         \o Distinct(pts, i + 1)

\* waypoints.filter(wp => !wp.isAction).map(wp => ({ x: wp.x, y: wp.y }))
RECURSIVE Geometric(_, _)
Geometric(wps, i) ==
    IF i > Len(wps) THEN <<>>
    ELSE (IF wps[i].isAction THEN <<>> ELSE <<Pt(wps[i].x, wps[i].y)>>)
         \o Geometric(wps, i + 1)

\* function computeFieldPath()
computeFieldPath(wps, st) ==
    LET pts == <<Pt(st.x, st.y)>> \o Geometric(wps, 1)
    IN IF Len(pts) < 2 THEN <<>>
       ELSE Distinct(Chaikin(Chaikin(pts)), 1)

\* the points pushed between a and b when they are more than 0.5 apart:
\* Math.ceil(d / 0.2) steps
RECURSIVE Between(_, _, _, _)
Between(a, b, k, n) ==
    IF k >= n THEN <<>>
    ELSE <<Pt(a.x + ((b.x - a.x) * k) \div n, a.y + ((b.y - a.y) * k) \div n)>>
         \o Between(a, b, k + 1, n)

RECURSIVE Refined(_, _)
Refined(pts, i) ==
    IF i > Len(pts) THEN <<>>
    ELSE <<pts[i]>>
         \o (IF i < Len(pts) /\ Dist(pts[i], pts[i + 1]) > RefineOver
             THEN Between(pts[i], pts[i + 1], 1,
                          (Dist(pts[i], pts[i + 1]) + RefineStep - 1) \div RefineStep)
             ELSE <<>>)
         \o Refined(pts, i + 1)

\* pathPoints of a field-mode run (part_001:56-77)
fieldPathPoints(wps, st) == Refined(Distinct(computeFieldPath(wps, st), 1), 1)

\* the getArcControlPoint(i) calls of the robot-mode path preview (part_001:79-91)
RECURSIVE previewArcs(_, _, _)
previewArcs(wps, st, i) ==
    IF i >= Len(wps) THEN wps
    ELSE previewArcs(IF wps[i + 1].segmentType = "arc"
                     THEN getArcControlPoint(wps, st, i).waypoints ELSE wps,
                     st, i + 1)

\* the body of stepField(16) past its guards: the run after the move
stepFieldMove(ch, speed) ==
    LET target == ch.pathPoints[ch.simIndex + 2]
        dx == target.x - ch.pos.x
        dy == target.y - ch.pos.y
        dist == Hypot(dx, dy)
        travel == Travel(speed)
    IN [ch EXCEPT
          !.pos = IF dist <= travel THEN Pt(target.x, target.y)
                  ELSE Pt(ch.pos.x + (dx * travel) \div dist, ch.pos.y + (dy * travel) \div dist),
          !.simIndex = IF dist <= travel THEN @ + 1 ELSE @,
          !.heading = Atan2(dy, dx)]

SimObserve(op, who) ==
    /\ lastOp' = op
    /\ report' = "none"
    /\ pushed' = FALSE
    /\ advancer' = who
    /\ UNCHANGED <<dragOrigin, steps, arcSamples, codeOutput, evaluated>>

\* the variables a simulate() call leaves its step closure, one callback requested
NewRun ==
    [field |-> currentMode = "field",
     points |-> <<StartPoint(start)>> \o waypoints,
     seg |-> 0,
     phase |-> "turn",
     pos |-> Pt(start.x, start.y),
     heading |-> -start.h,
     driveProgress |-> 0,
     simIndex |-> 0,
     pathPoints |-> IF currentMode = "field" THEN fieldPathPoints(waypoints, start) ELSE <<>>,
     pending |-> TRUE,
     cancelled |-> FALSE,
     primaries |-> 0]

\* function simulate()
simulate ==
    IF isSimulating THEN
        /\ SimObserve("simulateIgnored", 0)
        /\ UNCHANGED <<pathVars, uiVars, simVars>>
    ELSE IF Len(waypoints) + 1 < 2 THEN
        /\ SimObserve("simulateEmpty", 0)
        /\ UNCHANGED <<pathVars, uiVars, simVars>>
    ELSE
        /\ Len(chains) < MaxRuns
        /\ isSimulating' = TRUE
        /\ chains' = Append(chains, NewRun)
        /\ waypoints' = IF currentMode = "field" THEN waypoints
                        ELSE previewArcs(waypoints, start, 0)
        /\ SimObserve("simulate", 0)
        /\ UNCHANGED <<markers, nextMarkerId, start, history, selectedSegmentIdx, uiVars,
                       simSpeed>>

\* the callback of run c that requestAnimationFrame holds: step(16)
step(c) ==
    LET ch == chains[c]
    IN
    IF ~isSimulating THEN
        /\ chains' = [chains EXCEPT ![c].pending = FALSE]
        /\ SimObserve("frame", 0)
        /\ UNCHANGED <<pathVars, uiVars, simSpeed, isSimulating>>
    ELSE IF ch.seg >= Len(ch.points) - 1 THEN
        \* if (!info) { isSimulating = false; draw(); return; }
        /\ chains' = [chains EXCEPT ![c].pending = FALSE]
        /\ isSimulating' = FALSE
        /\ waypoints' = draw(waypoints, start, currentMode)
        /\ SimObserve("frame", 0)
        /\ UNCHANGED <<markers, nextMarkerId, start, history, selectedSegmentIdx, uiVars,
                       simSpeed>>
    ELSE
        \E info \in {segInfo(ch.points, ch.seg)} :
        \E r \in {stepPhase(ch, info, waypoints, start, simSpeed)} :
        \E finished \in {r.run.seg >= Len(ch.points) - 1} :
           /\ chains' = [chains EXCEPT ![c] = [r.run EXCEPT !.pending = ~finished]]
           /\ waypoints' = draw(r.waypoints, start, currentMode)
           \* if (seg >= points.length-1) { isSimulating = false; return; }
           /\ isSimulating' = ~finished
           /\ SimObserve("frame", c)
           /\ UNCHANGED <<markers, nextMarkerId, start, history, selectedSegmentIdx, uiVars,
                          simSpeed>>

\* the callback of field-mode run c: stepField(16)
stepField(c) ==
    LET ch == chains[c]
    IN
    IF ~isSimulating THEN
        /\ chains' = [chains EXCEPT ![c].pending = FALSE]
        /\ SimObserve("frame", 0)
        /\ UNCHANGED <<pathVars, uiVars, simSpeed, isSimulating>>
    ELSE IF ch.simIndex >= Len(ch.pathPoints) - 1 THEN
        /\ chains' = [chains EXCEPT ![c].pending = FALSE]
        /\ isSimulating' = FALSE
        /\ waypoints' = draw(waypoints, start, currentMode)
        /\ SimObserve("frame", 0)
        /\ UNCHANGED <<markers, nextMarkerId, start, history, selectedSegmentIdx, uiVars,
                       simSpeed>>
    ELSE
        /\ chains' = [chains EXCEPT ![c] = stepFieldMove(ch, simSpeed)]
        /\ waypoints' = draw(waypoints, start, currentMode)
        /\ SimObserve("frame", c)
        /\ UNCHANGED <<markers, nextMarkerId, start, history, selectedSegmentIdx, uiVars,
                       simSpeed, isSimulating>>

\* the host runs a requested callback
Frame(c) ==
    /\ c <= Len(chains)
    /\ chains[c].pending
    /\ IF chains[c].field THEN stepField(c) ELSE step(c)

\* the running flag set false from outside the run (spec, section 5)
Cancel ==
    /\ isSimulating
    /\ isSimulating' = FALSE
    /\ chains' = [c \in DOMAIN chains |-> [chains[c] EXCEPT !.cancelled = @ \/ chains[c].pending]]
    /\ SimObserve("cancel", 0)
    /\ UNCHANGED <<pathVars, uiVars, simSpeed>>

----------------------------------------------------------------------------
(* The simulator started on a path the editor has built *)

\* programs decoded to get a path: a drive and a strafe; two arcs; three poses,
\* the second with a heading of its own
TextSimMixed == <<TurnLine(0), DriveLine(50, 0), StrafeLine(50, 90)>>
TextSimArcs == <<TurnLine(0), ArcLine(50, 80), AtLine(0, 0), AtLine(100, 90), CloseLine,
                 ArcLine(50, 80), AtLine(0, 90), AtLine(100, 0), CloseLine>>
TextSimPoses == <<ListLine, PoseLine(0, 0, 0), PoseLine(500, 0, 45), PoseLine(500, 500, 0)>>

\* the editor after decodeAndVisualize(code) on the initial state in the given mode
Decoded(code, mode) ==
    LET parsed == IF Includes(code, "Pose2d") \/ Includes(code, "ArrayList")
                  THEN parseFieldOrientedCode(code, Origin)
                  ELSE parseRobotOrientedCode(code, Origin)
    IN [waypoints |-> draw(parsed.waypoints, parsed.start, mode),
        markers |-> <<>>, nextMarkerId |-> 1, start |-> parsed.start,
        history |-> <<SnapEmpty>>, selectedSegmentIdx |-> 0, currentMode |-> mode]

\* the editor after a click at PA, "add action" and a click at PM answered "grab"
WithAction ==
    [waypoints |-> <<WpA, ActionWaypoint(PM.x, PM.y, 1)>>,
     markers |-> <<Marker(1, PM.x, PM.y, "grab", "")>>, nextMarkerId |-> 2,
     start |-> Origin, history |-> <<SnapEmpty, SnapA>>, selectedSegmentIdx |-> 0,
     currentMode |-> "robot"]

Untouched ==
    [waypoints |-> <<>>, markers |-> <<>>, nextMarkerId |-> 1, start |-> Origin,
     history |-> <<>>, selectedSegmentIdx |-> NullIdx, currentMode |-> "robot"]

SimStarts ==
    {Decoded(TextSimMixed, "robot"), Decoded(TextSimArcs, "robot"),
     Decoded(TextSimPoses, "robot"), Decoded(TextSimPoses, "field"),
     Decoded(TextSimMixed, "field"), WithAction, Untouched}

InitSim ==
    \E s \in SimStarts, v \in SimSpeeds :
        /\ waypoints = s.waypoints
        /\ markers = s.markers
        /\ nextMarkerId = s.nextMarkerId
        /\ start = s.start
        /\ history = s.history
        /\ selectedSegmentIdx = s.selectedSegmentIdx
        /\ currentMode = s.currentMode
        /\ draggingIdx = NoDrag
        /\ draggingHIdx = NoDrag
        /\ draggingArcControlIdx = NoDrag
        /\ setStartMode = FALSE
        /\ addActionMode = FALSE
        /\ simSpeed = v
        /\ isSimulating = FALSE
        /\ chains = <<>>
        /\ report = "none"
        /\ lastOp = "init"
        /\ pushed = FALSE
        /\ dragOrigin = NoOrigin
        /\ steps = 0
        /\ advancer = 0
        /\ evaluated = NoCall
        /\ arcSamples = 5
        /\ codeOutput = IF s = Untouched THEN <<>>
                        ELSE generateCode(currentMode, start, waypoints, markers, arcSamples)

\* runs that are left to themselves
NextRun ==
    \/ simulate
    \/ \E c \in 1..MaxRuns : Frame(c)

\* the host runs every callback it was asked to run
SpecRun == InitSim /\ [][NextRun]_vars /\ WF_vars(\E c \in 1..MaxRuns : Frame(c))

\* runs that may be cancelled
NextSim ==
    \/ simulate
    \/ \E c \in 1..MaxRuns : Frame(c)
    \/ Cancel

SpecSim == InitSim /\ [][NextSim]_vars

----------------------------------------------------------------------------
(* Properties of the simulator *)

Started(c) == c <= Len(chains)

\* run c is a robot-mode run over waypoints none of which is an action, every
\* segment has a length, and the speed multiplier is positive
Eligible(c) ==
    /\ Started(c)
    /\ ~chains[c].field
    /\ simSpeed > 0
    /\ \A i \in 2..Len(chains[c].points) :
          /\ ~chains[c].points[i].isAction
          /\ Dist(chains[c].points[i - 1], chains[c].points[i]) > 0

\* run c has gone through all its segments and requests no more callbacks
Completed(c) ==
    /\ Started(c)
    /\ ~chains[c].pending
    /\ chains[c].seg = Len(chains[c].points) - 1

\* primary phases run c must have entered by now: one per segment behind it, one
\* more when it is in or past the primary phase of its segment
PrimariesDue(c) ==
    chains[c].seg + (IF chains[c].phase \in {"drive", "strafe", "arc", "wpTurn"} THEN 1 ELSE 0)

C9_SingleSteppingChain ==
    /\ [][(isSimulating /\ lastOp' \in {"simulate", "simulateIgnored"})
            => UNCHANGED <<chains, isSimulating>>]_vars
    /\ [](\A c \in 1..MaxRuns :
            (Started(c) /\ advancer = c)
               => \A d \in 1..MaxRuns : (Started(d) /\ d # c) => ~chains[d].pending)

\* what a run shows of its robot
Motion(ch) == <<ch.seg, ch.phase, ch.pos, ch.heading, ch.driveProgress, ch.simIndex>>

\* C10 (as stated): after isSimulating was set false during a run, the run's robot
\* and phase never change again and the run requests no callback again
C10_CancelledRunStops ==
    [][\A c \in 1..MaxRuns :
          (Started(c) /\ chains[c].cancelled)
             => (/\ Motion(chains'[c]) = Motion(chains[c])
                 /\ advancer' # c
                 /\ (chains'[c].pending => chains[c].pending))]_vars

----------------------------------------------------------------------------
(* Angle normalisation applied to the angles of a bounded range *)

AngleInputs == {k * 50 : k \in (-2 * MaxAngle)..(2 * MaxAngle)}

\* a call wrapDeg(d), d in 0.01 degree
applyWrapDeg(d) ==
    /\ evaluated' = [fn |-> "wrapDeg", arg |-> d, val |-> wrapDeg(d)]
    /\ UNCHANGED <<pathVars, uiVars, simVars, textVars, report, lastOp, pushed, dragOrigin,
                   steps, advancer>>

NextAngles == \E d \in AngleInputs : applyWrapDeg(d)

SpecAngles == Init /\ [][NextAngles]_vars

\* C12: wrapDeg returns a value in (-180, 180]: greater than -180 and at most 180
C12_WrapInHalfOpenRange ==
    evaluated.fn = "wrapDeg" => (evaluated.val > -18000 /\ evaluated.val <= 18000)

\* C13: on whole degrees wrapDeg has period 360: wrapDeg(d + 360) = wrapDeg(d)
C13_WrapPeriodic ==
    (evaluated.fn = "wrapDeg" /\ evaluated.arg % 100 = 0)
        => wrapDeg(evaluated.arg + 36000) = evaluated.val

----------------------------------------------------------------------------
(* The configuration inputs (part_000:407-415) *)

\* the value of an input element, one character per entry
ConfigTexts ==
    {<<>>, <<"a", "b", "c">>, <<"0">>, <<"1">>, <<"2">>, <<"5">>, <<"8">>, <<"1", "0">>,
     <<"-", "1">>, <<"0", ".", "5">>, <<"2", ".", "5">>, <<"3", "x">>, <<".", "5">>}

DigitOf(c) ==
    CASE c = "0" -> 0 [] c = "1" -> 1 [] c = "2" -> 2 [] c = "3" -> 3 [] c = "4" -> 4
      [] c = "5" -> 5 [] c = "6" -> 6 [] c = "7" -> 7 [] c = "8" -> 8 [] c = "9" -> 9
      [] OTHER -> -1

\* number of digits of text from position i on
RECURSIVE DigitRun(_, _)
DigitRun(text, i) ==
    IF i > Len(text) \/ DigitOf(text[i]) < 0 THEN 0 ELSE 1 + DigitRun(text, i + 1)

\* value of the n digits of text from position i on
RECURSIVE DigitsValue(_, _, _)
DigitsValue(text, i, n) ==
    IF n = 0 THEN 0 ELSE DigitsValue(text, i, n - 1) * 10 + DigitOf(text[i + n - 1])

\* parseInt(text): an optional sign and the digits that follow it, NaN without a digit
parseInt(text) ==
    LET neg == Len(text) > 0 /\ text[1] = "-"
        from == IF neg THEN 2 ELSE 1
        n == DigitRun(text, from)
    IN IF n = 0 THEN NaN
       ELSE (IF neg THEN -1 ELSE 1) * DigitsValue(text, from, n)

\* parseFloat(text) in tenths, for text with at most one digit after the point: an
\* optional sign, digits, an optional point and digit; NaN without a digit
parseFloat(text) ==
    LET neg == Len(text) > 0 /\ text[1] = "-"
        from == IF neg THEN 2 ELSE 1
        n == DigitRun(text, from)
        dot == from + n
        frac == IF dot < Len(text) /\ text[dot] = "." /\ DigitOf(text[dot + 1]) >= 0
                THEN DigitOf(text[dot + 1]) ELSE -1
    IN IF n = 0 /\ frac < 0 THEN NaN
       ELSE (IF neg THEN -1 ELSE 1)
            * (DigitsValue(text, from, n) * 10 + (IF frac < 0 THEN 0 ELSE frac))

\* simSpeedInput 'change': simSpeed = parseFloat(simSpeedInput.value); the label shows it
simSpeedChange(text) ==
    /\ simSpeed' = parseFloat(text)
    /\ Observe("simSpeed", 0, "none")
    /\ UNCHANGED <<pathVars, uiVars, isSimulating, chains, codeOutput, dragOrigin>>

\* arcSamplesInput 'change': arcSamples = parseInt(arcSamplesInput.value); generateCode();
arcSamplesChange(text) ==
    /\ arcSamples' = parseInt(text)
    /\ codeOutput' = generateCode(currentMode, start, waypoints, markers, arcSamples')
    /\ lastOp' = "arcSamples"
    /\ report' = "none"
    /\ pushed' = FALSE
    /\ steps' = steps + 1
    /\ UNCHANGED <<pathVars, uiVars, simVars, dragOrigin, advancer, evaluated>>

NextConfig ==
    \/ \E text \in ConfigTexts : simSpeedChange(text)
    \/ \E text \in ConfigTexts : arcSamplesChange(text)

SpecConfig == Init /\ [][steps < MaxConfigSteps /\ NextConfig]_vars

\* C15: an invalid configuration value is rejected and the previous value kept: after
\* any sequence of changes arcSamples is an integer >= 2 and simSpeed a positive number
C15_ConfigStaysValid ==
    /\ arcSamples # NaN /\ arcSamples >= 2
    /\ simSpeed # NaN /\ simSpeed > 0

----------------------------------------------------------------------------
(* The editor started on a path that is already built, with texts the generator *)
(* made handed back to the decoder                                               *)

\* the editor after WithAction, the action waypoint selected and deleted: the marker
\* stays
MarkerLeft ==
    [waypoints |-> <<WpA>>, markers |-> <<Marker(1, PM.x, PM.y, "grab", "")>>,
     nextMarkerId |-> 2, start |-> Origin,
     history |-> <<SnapEmpty, SnapA,
                   Snapshot(<<WpA, ActionWaypoint(PM.x, PM.y, 1)>>,
                            <<Marker(1, PM.x, PM.y, "grab", "")>>, Origin, 1)>>,
     selectedSegmentIdx |-> NullIdx, currentMode |-> "robot"]

\* the editor after the start was dragged to PM: no snapshot is taken by a drag
StartMoved ==
    [waypoints |-> <<>>, markers |-> <<>>, nextMarkerId |-> 1, start |-> Pose(PM.x, PM.y, 0),
     history |-> <<>>, selectedSegmentIdx |-> NullIdx, currentMode |-> "robot"]

BuiltStarts ==
    {WithAction, [WithAction EXCEPT !.currentMode = "field"], MarkerLeft, StartMoved,
     Decoded(TextSimMixed, "robot"), Decoded(TextSimArcs, "robot"),
     Decoded(TextSimPoses, "field"), Untouched}

InitBuilt ==
    \E s \in BuiltStarts :
        /\ waypoints = s.waypoints
        /\ markers = s.markers
        /\ nextMarkerId = s.nextMarkerId
        /\ start = s.start
        /\ history = s.history
        /\ selectedSegmentIdx = s.selectedSegmentIdx
        /\ currentMode = s.currentMode
        /\ draggingIdx = NoDrag
        /\ draggingHIdx = NoDrag
        /\ draggingArcControlIdx = NoDrag
        /\ setStartMode = FALSE
        /\ addActionMode = FALSE
        /\ simSpeed = 10
        /\ isSimulating = FALSE
        /\ chains = <<>>
        /\ arcSamples = 5
        /\ codeOutput = IF s = Untouched THEN <<>>
                        ELSE generateCode(currentMode, start, waypoints, markers, arcSamples)
        /\ report = "none"
        /\ lastOp = "init"
        /\ pushed = FALSE
        /\ dragOrigin = NoOrigin
        /\ steps = 0
        /\ advancer = 0
        /\ evaluated = NoCall

\* paths of drive waypoints whose field-oriented text is handed to the decoder: starts
\* near the origin with a small heading, on an axis, far out, near a half degree
RoundTripStarts ==
    {Pose(0, 0, 29), Pose(3, -4, 9049), Pose(5000, 0, -9000), Pose(-1234, 4321, 17970)}
RoundTripPaths ==
    {<<>>,
     <<GeoWaypoint(5000, 5000, 0, "drive", "0.80")>>,
     <<GeoWaypoint(1236, -4321, -4551, "drive", "0.80"),
       GeoWaypoint(0, 0, 18000, "drive", "0.80")>>}
RoundTripModels ==
    {[start |-> st, waypoints |-> wps, markers |-> <<>>] :
        st \in RoundTripStarts, wps \in RoundTripPaths}

FieldTextOf(m) == generateFieldOrientedCode(m.start, m.waypoints, m.markers)

\* robot-oriented texts of turns and drives: the example drivePID(2.00, 90), a turn
\* only, two drives with turns between them, a drive on a diagonal
TextDriveNorth == <<DriveLine(200, 90)>>
TextRobotTurnOnly == <<CommentLine, TurnLine(90)>>
TextTwoDrives == <<TurnLine(180), DriveLine(100, 180), TurnLine(-90), DriveLine(50, -90)>>
TextDiagonal == <<TurnLine(45), DriveLine(100, 45), TurnLine(0)>>
CursorTexts == {TextDriveNorth, TextRobotTurnOnly, TextTwoDrives, TextDiagonal}

\* robot-oriented texts with arc commands: an arc of three samples followed by a
\* strafe, a drive followed by an arc that ends the text, two arcs in a row, and an
\* arc command written on one line followed by a strafe
TextArcThenStrafe == <<TurnLine(0), ArcLine(50, 80), AtLine(0, 0), AtLine(50, 45),
                       AtLine(100, 90), CloseLine, StrafeLine(100, 90)>>
TextDriveThenArc == <<TurnLine(90), DriveLine(50, 90), ArcLine(50, 80), AtLine(0, 90),
                      AtLine(100, 0), CloseLine>>
TextArcInline == <<ArcInlineLine(50, 80, 90), StrafeLine(100, 90)>>
ArcTexts == {TextArcThenStrafe, TextDriveThenArc, TextSimArcs, TextArcInline}

NextBuilt ==
    /\ \/ Handlers
       \/ \E m \in RoundTripModels : decodeAndVisualize(FieldTextOf(m))
       \/ \E code \in CursorTexts : decodeAndVisualize(code)
       \/ \E code \in ArcTexts : decodeAndVisualize(code)
       \/ decodeAndVisualize(codeOutput)
    /\ displayCodeOutput

SpecBuilt == InitBuilt /\ [][steps < MaxBuiltSteps /\ NextBuilt]_vars

----------------------------------------------------------------------------
(* Properties of the codec and of action waypoints *)

\* position within 1e-3 length units and heading within 1 degree
Within(p, q) ==
    /\ Abs(p.x - q.x) <= 10
    /\ Abs(p.y - q.y) <= 10
    /\ Abs(wrapDeg(p.h - q.h)) <= 100

\* C11: decoding the field-oriented text of a path of drive waypoints whose start
\* heading is not zero gives back the start and every waypoint, in order and number,
\* positions within 1e-3 and headings within 1 degree
C11_FieldRoundTrip ==
    [][\A m \in RoundTripModels :
          (m.start.h # 0 /\ decodeAndVisualize(FieldTextOf(m)))
              => /\ Within(start', m.start)
                 /\ Len(waypoints') = Len(m.waypoints)
                 /\ \A i \in 1..Len(m.waypoints) : Within(waypoints'[i], m.waypoints[i])]_vars

\* texts in a recognized format that hold no pose literal and no drive, strafe or arc
ZeroEntryTexts == {TextFieldNone, TextRobotTurnOnly}

\* C14: a decode of a recognized text with zero usable entries reports
\* NoWaypointsDecoded, whatever the start was before
C14_EmptyDecodeReported ==
    [][\A code \in ZeroEntryTexts :
          decodeAndVisualize(code) => report' = "NoWaypointsDecoded"]_vars

\* the texts handed to the decoder that hold "Pose2d" or "ArrayList"
FieldTexts ==
    {code \in DecodeTexts \cup {FieldTextOf(m) : m \in RoundTripModels} :
        Includes(code, "Pose2d") \/ Includes(code, "ArrayList")}

IsAction(wp) == wp.isAction
IsGeometry(wp) == ~wp.isAction

\* C16: index after which a new action waypoint belongs: the last non-action
\* waypoint, the end of the sequence when there is none
LastGeometry(wps) ==
    LET geo == {i \in 1..Len(wps) : ~wps[i].isAction}
    IN IF geo = {} THEN Len(wps) ELSE CHOOSE i \in geo : \A j \in geo : j <= i

\* C16: a new action waypoint goes right after the last non-action waypoint (at the
\* end when there is none); every other waypoint is kept, unaltered and in order
C16_ActionAfterLastGeometry ==
    [][lastOp' \in {"addAction", "clickMarker"}
         => LET k == LastGeometry(waypoints)
            IN /\ Len(waypoints') = Len(waypoints) + 1
               /\ waypoints'[k + 1].isAction
               /\ \A i \in 1..k : waypoints'[i] = waypoints[i]
               /\ \A i \in (k + 1)..Len(waypoints) : waypoints'[i + 1] = waypoints[i]
               /\ SelectSeq(waypoints', IsGeometry) = SelectSeq(waypoints, IsGeometry)]_vars

\* C16 witness: an action waypoint was just inserted between a non-action waypoint
\* and an action waypoint that was there before
C16_InsertedBeforeAction ==
    /\ lastOp \in {"addAction", "clickMarker"}
    /\ \E i \in 1..(Len(waypoints) - 2) :
          ~waypoints[i].isAction /\ waypoints[i + 1].isAction /\ waypoints[i + 2].isAction

\* a marker named name lies within the proximity tolerance (5 px) of m
NearSameName(m, name) ==
    \E i \in 1..Len(markers) :
        Dist(markers[i], m) < PxUnits(ReusePx) /\ markers[i].name = name

\* exactly one waypoint was inserted, an action waypoint that refers to marker id
OneActionFor(id) ==
    /\ Len(waypoints') = Len(waypoints) + 1
    /\ Len(SelectSeq(waypoints', IsAction)) = Len(SelectSeq(waypoints, IsAction)) + 1
    /\ \E i \in 1..Len(waypoints') :
          /\ waypoints'[i].isAction /\ waypoints'[i].actionId = id
          /\ RemoveAt(waypoints', i - 1) = waypoints

\* C17: a click in add-action mode reuses a marker (no new marker, no new id) when one
\* of the wanted name lies within the tolerance of the point; an add that finds none
\* allocates one marker with a fresh id; either way one action waypoint that refers to
\* the marker is inserted
C17_ReuseOrAllocate ==
    [][\A m \in Clicks :
          (addActionMode /\ mousedown(m))
              => /\ NearSameName(m, "grab")
                    => /\ markers' = markers
                       /\ nextMarkerId' = nextMarkerId
                       /\ \E i \in 1..Len(markers) :
                             /\ Dist(markers[i], m) < PxUnits(ReusePx)
                             /\ markers[i].name = "grab"
                             /\ OneActionFor(markers[i].id)
                 /\ (lastOp' = "addAction" /\ ~NearSameName(m, "grab"))
                    => /\ Len(markers') = Len(markers) + 1
                       /\ SubSeq(markers', 1, Len(markers)) = markers
                       /\ \A i \in 1..Len(markers) : markers[i].id # Last(markers').id
                       /\ OneActionFor(Last(markers').id)]_vars

IsDrive(line) == line.tok = "drivePID"

\* C18: a decode of turns and drives keeps the start, gives one drive waypoint per
\* drivePID line and none per turnPID line, each at the line's distance from the
\* cursor before it, in the line's direction, with heading minus the line's bearing;
\* drivePID(2.00, 90) from the origin gives a waypoint at about (0, 2), -90 degrees
C18_CursorDecoding ==
    [][\A code \in CursorTexts :
          decodeAndVisualize(code)
              => LET drives == SelectSeq(code, IsDrive)
                 IN /\ start' = start
                    /\ Len(waypoints') = Len(drives)
                    /\ \A k \in 1..Len(drives) :
                          LET prev == IF k = 1 THEN start ELSE waypoints'[k - 1]
                              wp == waypoints'[k]
                              d == drives[k].n1 * 100
                              b == drives[k].n2 * 100
                          IN /\ wp.segmentType = "drive" /\ ~wp.isAction
                             /\ wp.h = -b
                             /\ Abs(Dist(prev, wp) - d) * 100 <= d
                             /\ Abs(wrapDeg(Atan2(wp.y - prev.y, wp.x - prev.x) - b)) <= 100
                    /\ (code = TextDriveNorth /\ start = Origin)
                          => /\ Abs(waypoints'[1].x) <= 10
                             /\ Abs(waypoints'[1].y - 20000) <= 10
                             /\ waypoints'[1].h = -9000]_vars

\* C18 witness: two drives decoded from a start that is not the origin
C18_TwoDrivesDecoded ==
    /\ lastOp = "decode" /\ report = "none"
    /\ start = Pose(PM.x, PM.y, 0)
    /\ Len(waypoints) = 2
    /\ waypoints[1].h = -18000 /\ waypoints[2].h = 9000

\* the code output shows the text of the current state
Fresh == lastOp \in Regenerating /\ report = "none"

IsCall(line) == line.tok = "call"
IsMotion(line) == line.tok \in {"drivePID", "strafePID", "arc"}

\* the action waypoints whose marker exists
RECURSIVE ActionsWithMarker(_, _, _)
ActionsWithMarker(wps, mks, i) ==
    IF i > Len(wps) THEN <<>>
    ELSE (IF wps[i].isAction /\ FindMarker(mks, wps[i].actionId, 1) > 0
          THEN <<mks[FindMarker(mks, wps[i].actionId, 1)]>> ELSE <<>>)
         \o ActionsWithMarker(wps, mks, i + 1)

\* C19: the robot-oriented text holds one invocation per action waypoint whose marker
\* exists, in order, name(args) with the marker's name and argument string
C19_EveryActionInvoked ==
    (Fresh /\ currentMode = "robot")
        => LET calls == SelectSeq(codeOutput, IsCall)
               acts == ActionsWithMarker(waypoints, markers, 1)
           IN /\ Len(calls) = Len(acts)
              /\ \A i \in 1..Len(calls) :
                    calls[i].s1 = acts[i].name /\ calls[i].s2 = acts[i].args

\* C20: the motion commands of the robot-oriented text are those of the path without
\* its action waypoints, so there are at most as many as non-action waypoints
C20_ActionsAddNoSegment ==
    (Fresh /\ currentMode = "robot")
        => LET geometry == SelectSeq(waypoints, IsGeometry)
           IN /\ Len(SelectSeq(codeOutput, IsMotion)) <= Len(geometry)
              /\ SelectSeq(codeOutput, IsMotion)
                    = SelectSeq(generateRobotOrientedCode(start, geometry, markers, arcSamples),
                                IsMotion)

----------------------------------------------------------------------------
(* The editor on a decoded path of two arcs, simulated between edits: handlers  *)
(* run while no simulation is running                                           *)

InitArcs ==
    \E s \in {Decoded(TextSimArcs, "robot")} :
        /\ waypoints = s.waypoints
        /\ markers = s.markers
        /\ nextMarkerId = s.nextMarkerId
        /\ start = s.start
        /\ history = s.history
        /\ selectedSegmentIdx = s.selectedSegmentIdx
        /\ currentMode = s.currentMode
        /\ draggingIdx = NoDrag
        /\ draggingHIdx = NoDrag
        /\ draggingArcControlIdx = NoDrag
        /\ setStartMode = FALSE
        /\ addActionMode = FALSE
        /\ simSpeed = 10
        /\ isSimulating = FALSE
        /\ chains = <<>>
        /\ arcSamples = 5
        /\ codeOutput = generateCode(currentMode, start, waypoints, markers, arcSamples)
        /\ report = "none"
        /\ lastOp = "init"
        /\ pushed = FALSE
        /\ dragOrigin = NoOrigin
        /\ steps = 0
        /\ advancer = 0
        /\ evaluated = NoCall

NextArcs ==
    \/ ~isSimulating /\ steps < MaxArcSteps /\ Handlers /\ displayCodeOutput
    \/ simulate
    \/ \E c \in 1..MaxRuns : Frame(c)

SpecArcs == InitArcs /\ [][NextArcs]_vars

----------------------------------------------------------------------------
(* Properties of the simulator's phases and geometry *)

PrimaryPhases == {"drive", "strafe", "arc"}

\* the phase changes step() may make
PhaseEdges ==
    ({"turn"} \X PrimaryPhases) \cup (PrimaryPhases \X {"wpTurn", "turn"})
        \cup {<<"wpTurn", "turn">>}

\* number of segments of a run
Segments(ch) == Len(ch.points) - 1

\* C22: in a robot-mode run the phase changes along turn -> primary, primary ->
\* wpTurn or turn, wpTurn -> turn only; the primary phase entered is the one of the
\* segment's type; the segment index starts at 0 in phase turn, never decreases, and
\* grows by one exactly on an entry to turn from a primary phase or wpTurn; the run
\* asks for no further callback exactly when the index is the number of segments
C22_PhaseMachine ==
    /\ [][\A c \in 1..MaxRuns :
            (c <= Len(chains') /\ ~chains'[c].field)
               => IF ~Started(c)
                  THEN chains'[c].seg = 0 /\ chains'[c].phase = "turn"
                  ELSE LET a == chains[c]
                           b == chains'[c]
                           entersTurn == a.phase \in PrimaryPhases \cup {"wpTurn"}
                                         /\ b.phase = "turn"
                       IN /\ a.phase # b.phase => <<a.phase, b.phase>> \in PhaseEdges
                          /\ (a.phase = "turn" /\ b.phase # "turn")
                                => b.phase = segInfo(a.points, a.seg).segmentType
                          /\ b.seg = a.seg + (IF entersTurn THEN 1 ELSE 0)]_vars
    /\ [](\A c \in 1..MaxRuns :
            (Started(c) /\ ~chains[c].field)
               => /\ chains[c].seg \in 0..Segments(chains[c])
                  /\ ~chains[c].pending <=> chains[c].seg = Segments(chains[c]))

\* C22 witness: a robot-mode run over two segments, the first to a waypoint with a
\* heading of its own, has gone through all its phases and ended
C22_RunWithWaypointTurnEnded ==
    /\ Started(1)
    /\ ~chains[1].field
    /\ Segments(chains[1]) = 2
    /\ chains[1].points[2].h # 0
    /\ chains[1].seg = 2
    /\ ~chains[1].pending

\* the waypoint that ends the segment of run ch has a heading that is not zero and
\* is not the bearing of the segment
HeadingOffBearing(ch) ==
    LET wpHeading == -ch.points[ch.seg + 2].h
    IN wpHeading # 0 /\ wrapDeg(wpHeading - segInfo(ch.points, ch.seg).ang) # 0

\* C23: when a primary phase of a robot-mode run ends, the run goes to wpTurn if and
\* only if the waypoint reached has a non-zero heading distinct from the segment's
\* bearing; otherwise the segment index grows by one and the phase is turn
C23_WaypointTurnOnlyOffBearing ==
    [][\A c \in 1..MaxRuns :
          (Started(c) /\ ~chains[c].field /\ chains[c].phase \in PrimaryPhases
             /\ chains'[c].phase # chains[c].phase)
             => IF HeadingOffBearing(chains[c])
                THEN chains'[c].phase = "wpTurn" /\ chains'[c].seg = chains[c].seg
                ELSE chains'[c].phase = "turn" /\ chains'[c].seg = chains[c].seg + 1]_vars

\* the control point the generator takes for the segment that ends at waypoint seg
\* (robot-oriented.js:40-53): the one the waypoint holds, else the default one
GeneratorControl(wps, st, seg) ==
    LET cur == wps[seg + 1]
        prev == IF seg = 0 THEN StartPoint(st) ELSE wps[seg]
    IN IF ~CpFalsy(cur.cp) THEN Pt(cur.cp.x, cur.cp.y)
       ELSE computeDefaultArcControl(prev, cur)

\* C24: every frame of an arc phase puts the robot on the quadratic Bezier through the
\* control point the generator takes for that segment, the first segment included
C24_ArcOnGeneratorCurve ==
    [][\A c \in 1..MaxRuns :
          (Started(c) /\ ~chains[c].field /\ chains[c].phase = "arc"
             /\ lastOp' = "frame" /\ advancer' = c)
             => LET a == chains[c]
                    info == segInfo(a.points, a.seg)
                IN chains'[c].pos
                     = bezierPoint(a.driveProgress + Travel(simSpeed), info.len, info.a,
                                   GeneratorControl(waypoints, start, a.seg), info.b)]_vars

----------------------------------------------------------------------------
(* Properties of arc control points and of the robot-oriented text *)

\* the point before waypoint i (1-based) of wps: the waypoint before it, else the start
PointBefore(wps, st, i) == IF i = 1 THEN StartPoint(st) ELSE wps[i - 1]

SamePlace(p, q) == p.x = q.x /\ p.y = q.y

\* waypoint i of wps is an arc that holds the default control point of its endpoints
HoldsDefault(wps, st, i) ==
    /\ wps[i].segmentType = "arc"
    /\ ~CpFalsy(wps[i].cp)
    /\ SamePlace(wps[i].cp, computeDefaultArcControl(PointBefore(wps, st, i), wps[i]))

\* C25: when a drag moves an endpoint of an arc segment, the waypoint itself or the
\* point before it, a default control point the arc waypoint holds is dropped or
\* computed again: after the drag it is the default of the positions of that moment
C25_DefaultControlFollowsEndpoints ==
    [][(lastOp' = "dragMove" /\ report' = "none" /\ Len(waypoints') = Len(waypoints))
          => \A i \in 1..Len(waypoints) :
                (/\ HoldsDefault(waypoints, start, i)
                 /\ \/ ~SamePlace(waypoints'[i], waypoints[i])
                    \/ ~SamePlace(PointBefore(waypoints', start', i),
                                  PointBefore(waypoints, start, i)))
                   => \/ CpFalsy(waypoints'[i].cp)
                      \/ HoldsDefault(waypoints', start', i)]_vars

\* the lines of the arc command that starts at line i of code, between its first
\* line and its closing line
ArcBody(code, i) == SubSeq(code, i + 1, ArcEnd(code, i + 1) - 1)

\* the code output is the robot-oriented text of the path as it is now
TextCurrent == codeOutput = generateRobotOrientedCode(start, waypoints, markers, arcSamples)

\* C26: every arc command of the robot-oriented text holds the sample .at(0.0, 0),
\* then arcSamples interior samples with strictly increasing parameters inside
\* (0, 1), then the sample at 1.0 with the negated heading of an arc waypoint
C26_ArcSamplesInterior ==
    TextCurrent
        => \A i \in 1..Len(codeOutput) :
              codeOutput[i].tok = "arc"
                 => LET body == ArcBody(codeOutput, i)
                        n == Len(body)
                    IN /\ n = arcSamples + 2
                       /\ \A k \in 1..n : body[k].tok = "at"
                       /\ body[1] = AtLine(0, 0)
                       /\ body[n].n1 = 100
                       /\ \E w \in 1..Len(waypoints) :
                             /\ waypoints[w].segmentType = "arc"
                             /\ body[n].n2 = RoundDeg(-waypoints[w].h)
                       /\ \A k \in 1..(n - 1) : body[k].n1 < body[k + 1].n1

IsCommand(line) == line.tok # "comment"

\* C27: the first command of the robot-oriented text is a turn to the start heading
\* in program convention, the negated start heading in degrees, rounded
C27_FirstTurnFacesStart ==
    (Fresh /\ currentMode = "robot")
        => LET commands == SelectSeq(codeOutput, IsCommand)
           IN Len(commands) > 0 /\ commands[1] = TurnLine(RoundDeg(-start.h))

\* the segment types of the motion commands of code from line i on, in text order
RECURSIVE CommandKinds(_, _)
CommandKinds(code, i) ==
    IF i > Len(code) THEN <<>>
    ELSE (CASE code[i].tok = "drivePID" -> <<"drive">>
            [] code[i].tok = "strafePID" -> <<"strafe">>
            [] code[i].tok \in {"arc", "arcInline"} -> <<"arc">>
            [] OTHER -> <<>>)
         \o CommandKinds(code, i + 1)

\* the segment types of the waypoints, in order
WaypointKinds(wps) == [k \in 1..Len(wps) |-> wps[k].segmentType]

\* the arc commands of code whose first line does not hold the closing token
MultiLine(code) == \A i \in 1..Len(code) : code[i].tok # "arcInline"

\* C28 (as stated): a decode of a robot-oriented text with arc commands gives one
\* waypoint per drive, strafe and arc command, in text order: one arc waypoint per arc
\* command, none for a line of its body, and none of the commands after it is lost
C28_ArcConsumedExactly ==
    [][\A code \in ArcTexts :
          decodeAndVisualize(code) => WaypointKinds(waypoints') = CommandKinds(code, 1)]_vars

\* C28 (amended): the same for arc commands written over several lines, the closing
\* token on a line after the one that opens the command
C28_MultiLineArcConsumed ==
    [][\A code \in ArcTexts :
          (MultiLine(code) /\ decodeAndVisualize(code))
              => WaypointKinds(waypoints') = CommandKinds(code, 1)]_vars

\* C28 witness: an arc command of three samples and the strafe after it were decoded
C28_ArcAndStrafeDecoded ==
    /\ lastOp = "decode"
    /\ WaypointKinds(waypoints) = <<"arc", "strafe">>
    /\ waypoints[1].h = -9000
    /\ waypoints[2].y - waypoints[1].y = 10000

\* C29: in a drive, strafe or arc phase of a robot-mode run the point the robot
\* moves to is never an action waypoint: action waypoints end no segment
C29_RunSkipsActions ==
    \A c \in 1..MaxRuns :
        (Started(c) /\ ~chains[c].field /\ chains[c].phase \in PrimaryPhases)
           => ~segInfo(chains[c].points, chains[c].seg).b.isAction

\* C30: every action waypoint refers to a marker that is in the marker list
C30_ActionsReferToMarkers ==
    \A i \in 1..Len(waypoints) :
        waypoints[i].isAction => FindMarker(markers, waypoints[i].actionId, 1) > 0

\* C30 witness: an undo has put back an action waypoint that had been deleted
C30_ActionRestored ==
    /\ lastOp = "undo"
    /\ report = "none"
    /\ \E i \in 1..Len(waypoints) : waypoints[i].isAction
    /\ Len(markers) > 0

----------------------------------------------------------------------------
(* Properties of decode snapshots, marker ids, percentages and action order *)

\* the editor after "Add Action" was pressed on a built path: the next click on free
\* ground asks for a name and adds an action
MaxArmedSteps == 2

\* the path of WithAction when the name given for its action was "lift"
LiftFirst == [WithAction EXCEPT !.markers = <<Marker(1, PM.x, PM.y, "lift", "")>>]

ArmedStarts ==
    {WithAction, [WithAction EXCEPT !.currentMode = "field"], LiftFirst, MarkerLeft, Untouched}

InitArmed ==
    \E s \in ArmedStarts :
        /\ waypoints = s.waypoints
        /\ markers = s.markers
        /\ nextMarkerId = s.nextMarkerId
        /\ start = s.start
        /\ history = s.history
        /\ selectedSegmentIdx = s.selectedSegmentIdx
        /\ currentMode = s.currentMode
        /\ draggingIdx = NoDrag
        /\ draggingHIdx = NoDrag
        /\ draggingArcControlIdx = NoDrag
        /\ setStartMode = FALSE
        /\ addActionMode = TRUE
        /\ simSpeed = 10
        /\ isSimulating = FALSE
        /\ chains = <<>>
        /\ arcSamples = 5
        /\ codeOutput = IF s = Untouched THEN <<>>
                        ELSE generateCode(currentMode, start, waypoints, markers, arcSamples)
        /\ report = "none"
        /\ lastOp = "init"
        /\ pushed = FALSE
        /\ dragOrigin = NoOrigin
        /\ steps = 0
        /\ advancer = 0
        /\ evaluated = NoCall

SpecArmed == InitArmed /\ [][steps < MaxArmedSteps /\ Next]_vars

\* every text the decoder is handed in the editor started on a built path
BuiltTexts ==
    DecodeTexts \cup CursorTexts \cup ArcTexts \cup {FieldTextOf(m) : m \in RoundTripModels}

\* C31: a decode of a non-empty text, whatever its outcome, pushes one snapshot, the
\* state as it was before anything was cleared (on a full history the oldest snapshot
\* makes room for it), and an undo that comes right after a
\* decode makes waypoints, markers, start and selection what that snapshot holds
C31_DecodeUndone ==
    /\ [][\A code \in BuiltTexts \cup {codeOutput} :
            (Len(code) > 0 /\ decodeAndVisualize(code))
               => /\ Last(history') = Current
                  /\ Front(history') = IF Len(history) < HistoryCap THEN history
                                        ELSE Tail(history)
                  /\ report' \in {"none", "UnrecognizedFormat", "NoWaypointsDecoded"}]_vars
    /\ [][(lastOp = "decode" /\ lastOp' = "undo")
            => /\ Current' = Last(history)
               /\ history' = Front(history)]_vars

\* C31 witness: a text in neither format was decoded over a path with an action
\* waypoint and a marker: both lists are now empty, and the newest snapshot holds the
\* path as it was, which the undo that can follow restores
C31_SnapshotBeforeClearing ==
    /\ lastOp = "decode"
    /\ report = "UnrecognizedFormat"
    /\ waypoints = <<>> /\ markers = <<>>
    /\ Len(history) > 0
    /\ Last(history) = Snapshot(WithAction.waypoints, WithAction.markers, WithAction.start,
                                WithAction.selectedSegmentIdx)
    /\ steps < MaxBuiltSteps

\* the ids of a marker list, and every id the editor still holds: in the marker list
\* or in a snapshot of the history
IdsOf(mks) == {mks[i].id : i \in 1..Len(mks)}
HeldIds == IdsOf(markers) \cup UNION {IdsOf(history[k].markers) : k \in 1..Len(history)}

\* C32: no two markers of the marker list share an id and every id held is below the
\* counter; the counter never goes down, whatever the handler (undo, clear and decode
\* included), and a marker that enters the list with an id not held before has the
\* counter's old value as its id, above every id given out so far, and moves the
\* counter past it
C32_MarkerIdsUniqueAndFresh ==
    /\ [](/\ \A i, j \in 1..Len(markers) : i # j => markers[i].id # markers[j].id
          /\ \A id \in HeldIds : 0 < id /\ id < nextMarkerId)
    /\ [][/\ nextMarkerId' >= nextMarkerId
          /\ \A id \in IdsOf(markers') \ HeldIds :
                id = nextMarkerId /\ nextMarkerId' = id + 1]_vars

\* C32 witness: an action was added on free ground after an undo, a clear or a decode
\* had removed marker 1 from the list: the new marker has id 2, not 1
C32_AllocatedAfterRollback ==
    /\ lastOp = "addAction"
    /\ steps = 2
    /\ IdsOf(markers) = {2}
    /\ nextMarkerId = 3

IsPathMarker(line) == line.tok = "pathMarker"

\* the indices of the action waypoints whose marker exists, in order
RECURSIVE ActionIndices(_, _, _)
ActionIndices(wps, mks, i) ==
    IF i > Len(wps) THEN <<>>
    ELSE (IF wps[i].isAction /\ FindMarker(mks, wps[i].actionId, 1) > 0 THEN <<i>> ELSE <<>>)
         \o ActionIndices(wps, mks, i + 1)

\* the non-action waypoints among the first i
RealUpTo(wps, i) == Cardinality({j \in 1..i : ~wps[j].isAction})

\* C33 (as stated): in the field-oriented text of any path, a path of action waypoints
\* only included, the percentage of every action waypoint is a number from 0 to 100, and
\* it is the count of non-action waypoints up to the action over the count of all
\* non-action waypoints, times 100, to one decimal
C33_PercentInRange ==
    (Fresh /\ currentMode = "field")
        => LET lines == SelectSeq(codeOutput, IsPathMarker)
               acts == ActionIndices(waypoints, markers, 1)
               total == RealUpTo(waypoints, Len(waypoints))
           IN /\ Len(lines) = Len(acts)
              /\ \A k \in 1..Len(lines) :
                    /\ lines[k].n1 \in 0..1000
                    /\ 2 * Abs(lines[k].n1 * total - 1000 * RealUpTo(waypoints, acts[k]))
                          <= total

\* index of the last non-action waypoint, 0 when there is none
LastReal(wps) ==
    LET geo == {i \in 1..Len(wps) : ~wps[i].isAction}
    IN IF geo = {} THEN 0 ELSE CHOOSE i \in geo : \A j \in geo : j <= i

\* the invocations of the action waypoints of pts from i on, in the order of pts: those
\* whose marker exists and that lie 0.001 or more from the point before them
RECURSIVE InvokedCalls(_, _, _)
InvokedCalls(pts, mks, i) ==
    IF i > Len(pts) THEN <<>>
    ELSE LET k == IF pts[i].isAction THEN FindMarker(mks, pts[i].actionId, 1) ELSE 0
         IN (IF k > 0 /\ Hypot(pts[i].x - pts[i - 1].x, pts[i].y - pts[i - 1].y) >= 10
             THEN <<CallLine(mks[k].name, mks[k].args)>> ELSE <<>>)
            \o InvokedCalls(pts, mks, i + 1)

\* the invocations of the robot-oriented text are those of the waypoint sequence, in
\* its order
CallsFollowWaypoints ==
    currentMode' = "robot"
        => SelectSeq(codeOutput', IsCall)
              = InvokedCalls(<<StartPoint(start')>> \o waypoints', markers', 2)

\* C34 (as stated): an action that is added comes after the actions added before it
\* since the last non-action waypoint, in the waypoint sequence and so in the
\* invocations of the generated text
C34_ActionsInOrderAdded ==
    [][lastOp' \in {"addAction", "clickMarker"}
         => /\ Last(waypoints').isAction
            /\ Front(waypoints') = waypoints
            /\ CallsFollowWaypoints]_vars

\* C34 (amended): an action that is added comes right after the last non-action
\* waypoint, before the actions added earlier since that waypoint, so these actions
\* are in the reverse of the order in which they were added; only on a path with no
\* non-action waypoint does it come last. The invocations of the generated text
\* follow the waypoint sequence
C34_ActionsInReverseOrder ==
    [][lastOp' \in {"addAction", "clickMarker"}
         => LET g == LastReal(waypoints)
                p == IF g = 0 THEN Len(waypoints) + 1 ELSE g + 1
            IN /\ Len(waypoints') = Len(waypoints) + 1
               /\ waypoints'[p].isAction
               /\ RemoveAt(waypoints', p - 1) = waypoints
               /\ CallsFollowWaypoints]_vars

\* C34 witness: "grab" was added after "lift" with no waypoint added in between: its
\* action waypoint stands before that of "lift", and grab() is invoked before lift()
C34_SecondActionFirst ==
    /\ lastOp = "addAction"
    /\ currentMode = "robot"
    /\ Len(waypoints) = 3
    /\ ~waypoints[1].isAction
    /\ waypoints[2].isAction /\ waypoints[2].actionId = 2
    /\ waypoints[3].isAction /\ waypoints[3].actionId = 1
    /\ SelectSeq(codeOutput, IsCall) = <<CallLine("grab", ""), CallLine("lift", "")>>

====
